---- MODULE Spec2Model ----
(***************************************************************************)
(* Model of finance_bot_work: the price adapters and get_price             *)
(* (exchanges.py), the check_price_alerts job (scheduler.py) and the User   *)
(* store (database.py).                                                    *)
(*                                                                         *)
(* Prices are exact non-negative numbers (the code's floats without        *)
(* rounding); 0 is the adapters' failure value.  A ticker symbol is the    *)
(* sequence of its characters.  A tracked item is a Python dict: a         *)
(* function whose DOMAIN is the set of keys present.                       *)
(***************************************************************************)
EXTENDS Integers, Sequences, FiniteSets, TLC

\* ------------------------------------------------------------------ bounds
NumUsers == 2
UserIds == 1..NumUsers

\* /track commands in one behaviour
MaxTracks == 1

\* subscription toggles in one behaviour
MaxToggles == 2

\* minutes of wall-clock time one behaviour covers after scheduler.start()
MaxMinutes == 12

BTCUSDT == <<"B", "T", "C", "U", "S", "D", "T">>
SBER == <<"S", "B", "E", "R">>
USDTRUB == <<"U", "S", "D", "T", "R", "U", "B">>
Tickers == {BTCUSDT, SBER, USDTRUB}
sber == <<"s", "b", "e", "r">>

\* prices the upstream providers may quote in this model
Prices == {0, 100, 103, 105}

\* ------------------------------------------------- dict and string helpers
Has(item, k) == k \in DOMAIN item

Put(item, k, v) == [x \in (DOMAIN item) \cup {k} |-> IF x = k THEN v ELSE item[x]]

Abs(x) == IF x < 0 THEN -x ELSE x

endswith(s, ext) ==
    /\ Len(s) >= Len(ext)
    /\ SubSeq(s, Len(s) - Len(ext) + 1, Len(s)) = ext

startswith(s, ext) ==
    /\ Len(s) >= Len(ext)
    /\ SubSeq(s, 1, Len(ext)) = ext

\* str.upper() on the letters the command symbols use
UpperChar(c) ==
    CASE c = "s" -> "S"
      [] c = "b" -> "B"
      [] c = "e" -> "E"
      [] c = "r" -> "R"
      [] OTHER -> c

upper(s) == [i \in 1..Len(s) |-> UpperChar(s[i])]

CryptoSuffixes == {<<"U", "S", "D", "T">>, <<"B", "T", "C">>, <<"E", "T", "H">>}

\* a routing slip: the quote currency looked for at the front of the symbol
IsCrypto_prefix(ticker) == \E ext \in CryptoSuffixes : startswith(ticker, ext)

IsCrypto(ticker) == \E ext \in CryptoSuffixes : endswith(ticker, ext)

\* ------------------------------------------------------- provider outcomes
\* What one call to a provider does: the environment's choice.
BinanceOutcomes ==
    {[kind |-> "create_error", price |-> 0, close |-> "none"]}
    \cup {[kind |-> k, price |-> 0, close |-> c] :
            k \in {"request_error", "no_ticker"}, c \in {"ok", "error"}}
    \cup {[kind |-> "price", price |-> p, close |-> c] :
            p \in Prices, c \in {"ok", "error"}}

BybitOutcomes ==
    {[kind |-> k, price |-> 0] : k \in {"client_error", "request_error", "no_result"}}
    \cup {[kind |-> "price", price |-> p] : p \in Prices}

MoexOutcomes ==
    {[kind |-> k, price |-> 0] : k \in {"error", "no_marketdata"}}
    \cup {[kind |-> "price", price |-> p] : p \in Prices}

TinkoffOutcomes ==
    {[kind |-> k, price |-> 0] : k \in {"error", "not_found"}}
    \cup {[kind |-> "price", price |-> p] : p \in Prices}

Envs == [binance : BinanceOutcomes, bybit : BybitOutcomes,
         moex : MoexOutcomes, tinkoff : TinkoffOutcomes]

\* A provider-level failure: the request gave no price, or the client could
\* not be created or closed.
ProviderFailure(o) == o.kind # "price" \/ (Has(o, "close") /\ o.close = "error")

Returned(v, a, o) == [raised |-> FALSE, value |-> v, adapter |-> a, outcome |-> o]
Raised(a, o) == [raised |-> TRUE, value |-> 0, adapter |-> a, outcome |-> o]

\* ---------------------------------------------------------------- adapters
get_binance_price(symbol, o) ==
    IF o.kind = "create_error"
    THEN Raised("binance", o)          \* finally: client is unbound
    ELSE IF o.close = "error"
    THEN Raised("binance", o)          \* finally: close_connection raises
    ELSE IF o.kind = "price"
    THEN Returned(o.price, "binance", o)
    ELSE Returned(0, "binance", o)

\* a slip: close_connection at the end of the try block, not in finally
BinanceSteps_close_in_try(o) ==
    IF o.kind = "create_error" THEN <<"create">>
    ELSE IF o.kind = "request_error" THEN <<"create", "get_symbol_ticker">>
    ELSE <<"create", "get_symbol_ticker", "close_connection">>

\* The calls get_binance_price makes on the Binance client, in order.  When
\* create raises there is no client: the finally block fails on the unbound
\* name before close_connection is called.
BinanceSteps(o) ==
    IF o.kind = "create_error" THEN <<"create">>
    ELSE <<"create", "get_symbol_ticker", "close_connection">>

get_bybit_price(symbol, o) ==
    IF o.kind = "price"
    THEN Returned(o.price, "bybit", o)
    ELSE Returned(0, "bybit", o)

get_moex_price(ticker, o) ==
    IF o.kind = "price"
    THEN Returned(o.price, "moex", o)
    ELSE Returned(0, "moex", o)

get_tinkoff_price(ticker, o) ==
    IF o.kind = "price"
    THEN Returned(o.price, "tinkoff", o)
    ELSE Returned(0, "tinkoff", o)

\* a slip in the equity chain: MOEX asked first, Tinkoff only when MOEX has
\* no price
get_price_moex_first(ticker, env) ==
    IF IsCrypto(ticker)
    THEN LET b == get_binance_price(ticker, env.binance)
         IN  [raised |-> b.raised, value |-> b.value, calls |-> <<b>>]
    ELSE LET m == get_moex_price(ticker, env.moex)
         IN  IF m.value # 0
             THEN [raised |-> FALSE, value |-> m.value, calls |-> <<m>>]
             ELSE LET t == get_tinkoff_price(ticker, env.tinkoff)
                  IN  [raised |-> FALSE, value |-> t.value, calls |-> <<m, t>>]

\* get_price: the result and the adapter calls made, in order
get_price(ticker, env) ==
    IF IsCrypto(ticker)
    THEN LET b == get_binance_price(ticker, env.binance)
         IN  [raised |-> b.raised, value |-> b.value, calls |-> <<b>>]
    ELSE LET t == get_tinkoff_price(ticker, env.tinkoff)
         IN  IF t.raised
             THEN LET m == get_moex_price(ticker, env.moex)
                  IN  [raised |-> m.raised, value |-> m.value, calls |-> <<t, m>>]
             ELSE [raised |-> FALSE, value |-> t.value, calls |-> <<t>>]

\* What a call of get_price can give its caller, over all provider outcomes.
GetPriceResults ==
    [t \in Tickers |->
        {[raised |-> get_price(t, env).raised, value |-> get_price(t, env).value] :
            env \in Envs}]

\* -------------------------------------------------------------- the store
\* Tracked items as the program stores them.  handlers.track writes items
\* with ticker, threshold, last_price and added_at; check_price_alerts also
\* accepts items without last_price, without threshold and without ticker.
TrackedItem(t, th, lp) == [ticker |-> t, threshold |-> th, last_price |-> lp, added_at |-> 0]

InitialLists ==
    { <<>>,
      <<TrackedItem(SBER, 5, 100), TrackedItem(BTCUSDT, 5, 100)>>,
      <<[ticker |-> USDTRUB, threshold |-> 5, added_at |-> 0],
        [threshold |-> 5, last_price |-> 100],
        [ticker |-> SBER, last_price |-> 100, added_at |-> 0]>>,
      <<TrackedItem(BTCUSDT, 3, 0), TrackedItem(SBER, 3, 100),
        [ticker |-> USDTRUB, threshold |-> 0, added_at |-> 0]>> }

DefaultThreshold == 5

\* User.telegram_id is unique: user u is bound to Telegram account 10 + u
TelegramIdOf(u) == 10 + u

\* User.email is unique: user u registered with the u-th address
Emails == <<"a@x", "b@x", "c@x", "d@x">>
EmailOf(u) == Emails[u]

\* bcrypt.hashpw(password): the hash keeps which password it was made from
hashpw(password) == <<"hash", password>>
PasswordOf(u) == "pw"

Categories == {"crypto", "stocks", "news"}

\* Column(JSON, default={"crypto": False, "stocks": False, "news": False})
DefaultSubscriptions == [c \in Categories |-> FALSE]

\* Column(JSON, default=[])
DefaultTrackedTickers == <<>>

\* a users row
Row(tg, email, hash, auth, subs, tickers) ==
    [telegram_id |-> tg, email |-> email, password_hash |-> hash,
     is_authenticated |-> auth, subscriptions |-> subs, tracked_tickers |-> tickers]

VARIABLES
    db,        \* users table: id -> the row's columns
    apc,       \* where check_price_alerts is: "idle", "ticker", "commit"
    sess,      \* the pass's session: sequence of loaded User objects
    ui,        \* index in sess of the user being processed
    ti,        \* index of the item being processed in that user's list
    alerts,    \* the current user's alert batch
    outbox,    \* messages sent by the current or latest pass
    passLog,   \* what the current or latest pass resolved, and how it ended
    lastStep,  \* the latest per-ticker step of a pass
    seen,      \* what the pass before resolved, where a behaviour keeps it
    probe,     \* the latest direct call of get_price or of an adapter
    clock,     \* datetime.now()
    lastTrack, \* the latest /track command: its input, effect and reply
    news,      \* news_subscriptions table: sequence of [user_id, query]
    lastCmd,   \* the latest other command: its input, effect and reply
    signedOut, \* Telegram ids that sent /logout and have not logged in since
    dpc,       \* where send_daily_summary is: "idle", "user"
    dsess,     \* the digest's session: sequence of loaded User objects
    dui,       \* index in dsess of the user being processed
    digests,   \* digest messages sent by the current or latest invocation
    dlog,      \* what the current or latest invocation did for each user
    minute,    \* wall-clock time, in minutes of the day
    loop,      \* the event loop: "free", or "blocked" (the process is unavailable)
    jobs,      \* the scheduler's job store: job name -> [func, next_run_time]
    running,   \* job instances in flight: set of [job, run_time]
    schedLog   \* what the scheduler did with each occurrence, and how instances ended

alertVars == <<apc, sess, ui, ti, alerts, outbox, passLog, lastStep, seen>>
cmdVars == <<news, lastCmd, signedOut>>
digestVars == <<dpc, dsess, dui, digests, dlog>>
schedVars == <<minute, loop, jobs, running, schedLog>>

vars == <<db, apc, sess, ui, ti, alerts, outbox, passLog, lastStep, seen, probe,
          clock, lastTrack, cmdVars, digestVars, schedVars>>

NoStep == [kind |-> "none"]
NoProbe == [op |-> "none"]
NoTrack == [kind |-> "none"]
NoCmd == [kind |-> "none"]
EmptyLog == [state |-> "none", failed |-> "none",
             loaded |-> [u \in UserIds |-> <<>>],
             resolved |-> [u \in UserIds |-> <<>>]]

\* a slip: only logged-in users are selected
HasTracked_logged_in(row) == row.tracked_tickers # <<>> /\ row.is_authenticated

\* where(User.tracked_tickers != [])
HasTracked(row) == row.tracked_tickers # <<>>

\* select(User).where(User.tracked_tickers != []), in id order
RECURSIVE SelectFrom(_, _)
SelectFrom(d, u) ==
    IF u > NumUsers THEN <<>>
    ELSE IF HasTracked(d[u])
         THEN <<u>> \o SelectFrom(d, u + 1)
         ELSE SelectFrom(d, u + 1)

\* A loaded ORM object: the row's values and the attributes assigned since.
Load(d, u) == [id |-> u, telegram_id |-> d[u].telegram_id,
               email |-> d[u].email, password_hash |-> d[u].password_hash,
               is_authenticated |-> d[u].is_authenticated,
               subscriptions |-> d[u].subscriptions,
               tracked_tickers |-> d[u].tracked_tickers, dirty |-> {}]

\* a slip: the UPDATE has no WHERE on the row's id
Commit_no_where(d, obj) ==
    [u \in DOMAIN d |->
        [a \in DOMAIN d[u] |-> IF a \in obj.dirty THEN obj[a] ELSE d[u][a]]]

\* session.commit(): the flush writes the attributes that were assigned.
\* tracked_tickers is Column(JSON): a change made inside the loaded list
\* assigns nothing and is not flushed.
Commit(d, obj) ==
    [d EXCEPT ![obj.id] =
        [a \in DOMAIN @ |-> IF a \in obj.dirty THEN obj[a] ELSE @[a]]]

\* ------------------------------------------------------ check_price_alerts
AlertLine(ticker, last_price, current_price) ==
    [ticker |-> ticker, last_price |-> last_price, current_price |-> current_price]

\* a slip in the comparison: strictly greater
ChangeReaches_strict(current_price, last_price, threshold) ==
    Abs(current_price - last_price) * 100 > threshold * Abs(last_price)

\* abs((current_price - last_price) / last_price * 100) >= threshold,
\* for last_price # 0
ChangeReaches(current_price, last_price, threshold) ==
    Abs(current_price - last_price) * 100 >= threshold * Abs(last_price)

\* a slip: a stored price of 0 is compared like any other
ZeroDivision_never(last_price) == FALSE

\* `(current_price - last_price) / last_price` raises ZeroDivisionError
ZeroDivision(last_price) == last_price = 0

\* a slip in the first-observation branch: the price is not stored
ProcessItem_first_not_stored(item, batch, res) ==
    LET threshold == IF Has(item, "threshold") THEN item.threshold ELSE DefaultThreshold
    IN  IF ~Has(item, "ticker")
        THEN [item |-> item, batch |-> batch, how |-> "skipped"]
        ELSE IF res.raised
        THEN [item |-> item, batch |-> batch, how |-> "error"]
        ELSE IF ~Has(item, "last_price")
        THEN [item |-> item, batch |-> batch, how |-> "first"]
        ELSE IF ZeroDivision(item.last_price)
        THEN [item |-> item, batch |-> batch, how |-> "error"]
        ELSE [item |-> Put(item, "last_price", res.value),
              batch |-> IF ChangeReaches(res.value, item.last_price, threshold)
                        THEN Append(batch, AlertLine(item.ticker, item.last_price, res.value))
                        ELSE batch,
              how |-> "compared"]

\* One iteration of `for item in user.tracked_tickers`, given get_price's
\* result: the item afterwards, the batch afterwards, what happened.
ProcessItem(item, batch, res) ==
    LET threshold == IF Has(item, "threshold") THEN item.threshold ELSE DefaultThreshold
    IN  IF ~Has(item, "ticker")
        THEN [item |-> item, batch |-> batch, how |-> "skipped"]
        ELSE IF res.raised
        THEN [item |-> item, batch |-> batch, how |-> "error"]
        ELSE IF ~Has(item, "last_price")
        THEN [item |-> Put(item, "last_price", res.value), batch |-> batch, how |-> "first"]
        ELSE IF ZeroDivision(item.last_price)
        THEN [item |-> item, batch |-> batch, how |-> "error"]
        ELSE [item |-> Put(item, "last_price", res.value),
              batch |-> IF ChangeReaches(res.value, item.last_price, threshold)
                        THEN Append(batch, AlertLine(item.ticker, item.last_price, res.value))
                        ELSE batch,
              how |-> "compared"]

\* a slip: no try/except around the item, its error leaves the pass
AfterItem_error_leaves(out) == IF out.how = "error" THEN "idle" ELSE "ticker"

\* Where the pass is after an iteration: the item's try/except logs the
\* error and the loop goes on with the next item.
AfterItem(out) == "ticker"

\* a slip: the batch is created once per pass, not once per user
NewBatch_kept(batch) == batch

\* `alerts = []` at the start of each user's iteration
NewBatch(batch) == <<>>

\* a slip: the loop stays on the item it has just processed
NextItem_same(i) == i

\* `for item in user.tracked_tickers` goes on to the next item
NextItem(i) == i + 1

\* a slip: the inner loop is left after its first item, so the message and
\* the commit come per ticker
LoopDone_after_one(tickers, i) == i > 1

\* `for item in user.tracked_tickers` is exhausted: i items were started
LoopDone(tickers, i) == i > Len(tickers)

\* what a session that tracks changes inside a JSON value would do: the
\* attribute counts as assigned
SetItem_flagged(obj, i, item) ==
    [obj EXCEPT !.tracked_tickers[i] = item, !.dirty = @ \cup {"tracked_tickers"}]

\* `item["last_price"] = current_price`: the dict inside the loaded list is
\* changed in place, no attribute of the user is assigned
SetItem(obj, i, item) == [obj EXCEPT !.tracked_tickers[i] = item]

StartPass ==
    /\ apc = "idle"
    /\ LET ids == SelectFrom(db, 1)
       IN  /\ sess' = [i \in 1..Len(ids) |-> Load(db, ids[i])]
           /\ apc' = IF ids = <<>> THEN "idle" ELSE "ticker"
           /\ passLog' = [EmptyLog EXCEPT
                             !.state = IF ids = <<>> THEN "done" ELSE "running",
                             !.loaded = [u \in UserIds |->
                                            IF \E i \in 1..Len(ids) : ids[i] = u
                                            THEN db[u].tracked_tickers ELSE <<>>]]
    /\ ui' = 1
    /\ ti' = 1
    /\ alerts' = NewBatch(alerts)
    /\ outbox' = <<>>
    /\ lastStep' = NoStep
    /\ UNCHANGED <<db, probe, clock, lastTrack>>
    /\ UNCHANGED <<cmdVars, digestVars, schedVars>>

\* the scheduler calls check_price_alerts
AlertStart ==
    /\ StartPass
    /\ UNCHANGED seen

\* the scheduler calls check_price_alerts again, five minutes after a pass
\* that ended; the behaviour keeps the prices that pass resolved
AlertAgain ==
    /\ passLog.state \in {"done", "aborted"}
    /\ StartPass
    /\ seen' = [state |-> passLog.state, resolved |-> passLog.resolved]

AlertTicker ==
    /\ apc = "ticker"
    /\ ~LoopDone(sess[ui].tracked_tickers, ti)
    /\ \E res \in IF Has(sess[ui].tracked_tickers[ti], "ticker")
                   THEN GetPriceResults[sess[ui].tracked_tickers[ti].ticker]
                   ELSE {[raised |-> FALSE, value |-> 0]} :
        LET user == sess[ui]
            item == user.tracked_tickers[ti]
            out  == ProcessItem(item, alerts, res)
        IN  /\ sess' = [sess EXCEPT ![ui] = SetItem(user, ti, out.item)]
            /\ alerts' = out.batch
            /\ apc' = AfterItem(out)
            /\ passLog' = [passLog EXCEPT
                              !.state = IF AfterItem(out) = "ticker" THEN @ ELSE "aborted",
                              !.resolved[user.id] =
                                  Append(@, IF out.how = "skipped" \/ res.raised
                                            THEN -1 ELSE res.value)]
            /\ lastStep' = [kind |-> "tick", user |-> user.id, idx |-> ti,
                            before |-> item, after |-> out.item,
                            raised |-> res.raised, value |-> res.value,
                            how |-> out.how,
                            batchBefore |-> alerts, batchAfter |-> out.batch]
    /\ ti' = NextItem(ti)
    /\ UNCHANGED <<db, ui, outbox, seen, probe, clock, lastTrack>>
    /\ UNCHANGED <<cmdVars, digestVars, schedVars>>

\* `if alerts: await application.bot.send_message(...)`; a send that raises
\* leaves the pass through the outer except.
AlertSend ==
    /\ apc = "ticker"
    /\ LoopDone(sess[ui].tracked_tickers, ti)
    /\ IF alerts = <<>>
       THEN /\ apc' = "commit"
            /\ UNCHANGED <<outbox, passLog>>
       ELSE \E ok \in BOOLEAN :
                IF ok
                THEN /\ outbox' = Append(outbox, [chat_id |-> sess[ui].telegram_id,
                                                  lines |-> alerts])
                     /\ apc' = "commit"
                     /\ UNCHANGED passLog
                ELSE /\ apc' = "idle"
                     /\ passLog' = [passLog EXCEPT !.state = "aborted", !.failed = "send"]
                     /\ UNCHANGED outbox
    /\ UNCHANGED <<db, sess, ui, ti, alerts, lastStep, seen, probe, clock, lastTrack>>
    /\ UNCHANGED <<cmdVars, digestVars, schedVars>>

\* `await session.commit()`, then the next user; a commit that raises leaves
\* the pass through the outer except.
AlertCommit ==
    /\ apc = "commit"
    /\ \E ok \in BOOLEAN :
        IF ok
        THEN /\ db' = Commit(db, sess[ui])
             /\ IF ui < Len(sess)
                THEN /\ ui' = ui + 1
                     /\ ti' = 1
                     /\ alerts' = NewBatch(alerts)
                     /\ apc' = "ticker"
                     /\ UNCHANGED passLog
                ELSE /\ apc' = "idle"
                     /\ passLog' = [passLog EXCEPT !.state = "done"]
                     /\ UNCHANGED <<ui, ti, alerts>>
        ELSE /\ apc' = "idle"
             /\ passLog' = [passLog EXCEPT !.state = "aborted", !.failed = "commit"]
             /\ UNCHANGED <<db, ui, ti, alerts>>
    /\ UNCHANGED <<sess, outbox, lastStep, seen, probe, clock, lastTrack>>
    /\ UNCHANGED <<cmdVars, digestVars, schedVars>>

\* ------------------------------------------------------------------ /track
\* context.args of a /track command: nothing, a symbol, or a symbol and a
\* second word (a number, or the word "remove")
NumberArg(v) == [kind |-> "number", value |-> v]
RemoveArg == [kind |-> "word", value |-> 0]
SecondArgs == {RemoveArg} \cup {NumberArg(v) : v \in {10, 0}}
CommandSymbols == {SBER, BTCUSDT, sber}
TrackArgs ==
    {<<>>} \cup {<<sym>> : sym \in CommandSymbols}
           \cup {<<sym, a>> : sym \in CommandSymbols, a \in SecondArgs}

\* the Telegram accounts that send commands: one per user and one bound to
\* no user
Senders == {TelegramIdOf(u) : u \in 0..NumUsers}

\* float(context.args[1])
ParseFloat(a) == [ok |-> a.kind = "number", value |-> a.value]

\* select(User).where(User.telegram_id == id).scalar(); 0 for None
FindUser(d, tg) ==
    IF \E u \in DOMAIN d : d[u].telegram_id = tg
    THEN CHOOSE u \in DOMAIN d : d[u].telegram_id = tg
    ELSE 0

Min(S) == CHOOSE x \in S : \A y \in S : x <= y

Max(S) == CHOOSE x \in S : \A y \in S : x >= y

\* next((i for i, t in enumerate(tickers) if t["ticker"] == ticker), None):
\* the first matching index (0 for None); an item without "ticker" met
\* before a match raises KeyError
ExistingIndex(tickers, ticker) ==
    LET n == Len(tickers)
        matches == {i \in 1..n : Has(tickers[i], "ticker") /\ tickers[i].ticker = ticker}
        keyless == {i \in 1..n : ~Has(tickers[i], "ticker")}
        m == IF matches = {} THEN n + 1 ELSE Min(matches)
        k == IF keyless = {} THEN n + 1 ELSE Min(keyless)
    IN  IF k < m
        THEN [raised |-> TRUE, index |-> 0]
        ELSE [raised |-> FALSE, index |-> IF matches = {} THEN 0 ELSE m]

UpdatedItem(ticker, threshold, price, now) ==
    [ticker |-> ticker, threshold |-> threshold, last_price |-> price, updated_at |-> now]

AddedItem(ticker, threshold, price, now) ==
    [ticker |-> ticker, threshold |-> threshold, last_price |-> price, added_at |-> now]

\* a slip: the entry is appended whether or not the symbol is tracked
NewTickers_always_append(tickers, index, ticker, threshold, price, now) ==
    Append(tickers, AddedItem(ticker, threshold, price, now))

\* lines 186-199: replace the existing entry in place, or append a new one
NewTickers(tickers, index, ticker, threshold, price, now) ==
    IF index # 0
    THEN [tickers EXCEPT ![index] = UpdatedItem(ticker, threshold, price, now)]
    ELSE Append(tickers, AddedItem(ticker, threshold, price, now))

\* a slip: only the binding is looked at, as news_subscribe does
MayTrack_bound_only(d, u) == u # 0

\* `if not user or not user.is_authenticated` lets the command go no further
MayTrack(d, u) == u # 0 /\ d[u].is_authenticated

TrackReply(kind, price, threshold) == [kind |-> kind, price |-> price, threshold |-> threshold]

\* The whole handler: the users table afterwards, the reply, whether
\* get_price was called.  res is what get_price gives, commit_ok whether
\* session.commit() returns.
track(d, tg, args, res, commit_ok, now) ==
    LET Quit(kind, called) == [db |-> d, reply |-> TrackReply(kind, 0, 0), called |-> called]
    IN  IF Len(args) < 1 THEN Quit("usage", FALSE)
        ELSE IF Len(args) > 1 /\ ~ParseFloat(args[2]).ok THEN Quit("error", FALSE)
        ELSE
        LET ticker    == upper(args[1])
            threshold == IF Len(args) > 1 THEN ParseFloat(args[2]).value ELSE 5
            u         == FindUser(d, tg)
        IN  IF ~MayTrack(d, u) THEN Quit("login", FALSE)
            ELSE IF res.raised THEN Quit("price_error", TRUE)
            ELSE
            LET user    == Load(d, u)
                tickers == user.tracked_tickers
                found   == ExistingIndex(tickers, ticker)
            IN  IF found.raised THEN Quit("error", TRUE)
                ELSE IF ~commit_ok THEN Quit("error", TRUE)
                ELSE
                LET assigned == [user EXCEPT
                                   !.tracked_tickers = NewTickers(tickers, found.index, ticker,
                                                                  threshold, res.value, now),
                                   !.dirty = @ \cup {"tracked_tickers"}]
                IN  [db |-> Commit(d, assigned),
                     reply |-> TrackReply("tracking", res.value, threshold),
                     called |-> TRUE]

\* a /track command whose context.args are among argset
TrackWith(argset) ==
    /\ clock <= MaxTracks
    /\ \E tg \in Senders, args \in argset, commit_ok \in BOOLEAN :
        \E res \in IF args = <<>> THEN {[raised |-> FALSE, value |-> 0]}
                    ELSE GetPriceResults[upper(args[1])] :
            LET out == track(db, tg, args, res, commit_ok, clock)
                u   == FindUser(db, tg)
            IN  /\ db' = out.db
                /\ lastTrack' = [kind |-> "track", tg |-> tg, args |-> args, user |-> u,
                                 auth |-> u # 0 /\ db[u].is_authenticated,
                                 called |-> out.called,
                                 raised |-> out.called /\ res.raised,
                                 value |-> IF out.called /\ ~res.raised THEN res.value ELSE -1,
                                 before |-> IF u = 0 THEN <<>> ELSE db[u].tracked_tickers,
                                 after |-> IF u = 0 THEN <<>> ELSE out.db[u].tracked_tickers,
                                 reply |-> out.reply, now |-> clock]
    /\ clock' = clock + 1
    /\ UNCHANGED <<apc, sess, ui, ti, alerts, outbox, passLog, lastStep, seen, probe>>
    /\ UNCHANGED <<cmdVars, digestVars, schedVars>>

Track == TrackWith(TrackArgs)

\* The handler in two steps, for the commands that other coroutines can
\* interleave with: the steps are divided by `await exchanges.get_price`.
\* TrackBegin is the handler up to the select of the user; a command that
\* the checks turn away ends here.
TrackBegin(argset) ==
    /\ clock <= MaxTracks
    /\ lastTrack.kind # "loading"
    /\ \E tg \in Senders, args \in argset :
        LET u     == FindUser(db, tg)
            out   == track(db, tg, args, [raised |-> TRUE, value |-> 0], TRUE, clock)
        IN  IF ~out.called
            THEN /\ lastTrack' = [kind |-> "track", tg |-> tg, args |-> args, user |-> u,
                                   auth |-> u # 0 /\ db[u].is_authenticated,
                                   called |-> FALSE, raised |-> FALSE, value |-> -1,
                                   before |-> IF u = 0 THEN <<>> ELSE db[u].tracked_tickers,
                                   after |-> IF u = 0 THEN <<>> ELSE db[u].tracked_tickers,
                                   reply |-> out.reply, now |-> clock]
                 /\ clock' = clock + 1
            ELSE /\ lastTrack' = [kind |-> "loading", tg |-> tg, args |-> args, user |-> u,
                                   loaded |-> Load(db, u), during |-> passLog.state]
                 /\ UNCHANGED clock
    /\ UNCHANGED <<db, apc, sess, ui, ti, alerts, outbox, passLog, lastStep, seen, probe>>
    /\ UNCHANGED <<cmdVars, digestVars, schedVars>>

\* TrackEnd is the rest: get_price returns or raises, the list is copied from
\* the user loaded in TrackBegin, changed, assigned and committed.
TrackEnd ==
    /\ lastTrack.kind = "loading"
    /\ \E commit_ok \in BOOLEAN, res \in GetPriceResults[upper(lastTrack.args[1])] :
        LET u      == lastTrack.user
            loaded == lastTrack.loaded
            held   == [db EXCEPT ![u] = [a \in DOMAIN @ |-> loaded[a]]]
            out    == track(held, lastTrack.tg, lastTrack.args, res, commit_ok, clock)
            done   == out.reply.kind = "tracking"
            assigned == [loaded EXCEPT !.tracked_tickers = out.db[u].tracked_tickers,
                                       !.dirty = @ \cup {"tracked_tickers"}]
        IN  /\ db' = IF done THEN Commit(db, assigned) ELSE db
            /\ lastTrack' = [kind |-> "track", tg |-> lastTrack.tg, args |-> lastTrack.args,
                             user |-> u, auth |-> TRUE, called |-> TRUE,
                             raised |-> res.raised,
                             value |-> IF res.raised THEN -1 ELSE res.value,
                             before |-> db[u].tracked_tickers,
                             after |-> db'[u].tracked_tickers,
                             reply |-> out.reply, now |-> clock,
                             loaded |-> loaded.tracked_tickers,
                             during |-> <<lastTrack.during, passLog.state>>]
    /\ clock' = clock + 1
    /\ UNCHANGED <<apc, sess, ui, ti, alerts, outbox, passLog, lastStep, seen, probe>>
    /\ UNCHANGED <<cmdVars, digestVars, schedVars>>

\* ---------------------------------------------------- subscription toggle
\* subscriptions.get(category, False)
IsOn(subs, category) == Has(subs, category) /\ subs[category]

\* a slip: the button switches the category on, whatever it was
Toggled_always_on(subs, category) == Put(subs, category, TRUE)

\* subscriptions[category] = not subscriptions.get(category, False), on a copy
Toggled(subs, category) == Put(subs, category, ~IsOn(subs, category))

\* The callback of an inline button: the users table afterwards and the
\* edited message.  There is no try/except: a commit that raises leaves the
\* handler with the row as it was and no message.
subscription_callback(d, tg, category, commit_ok) ==
    LET u == FindUser(d, tg)
    IN  IF u = 0 THEN [db |-> d, done |-> FALSE, reply |-> [kind |-> "none"]]
        ELSE IF ~commit_ok THEN [db |-> d, done |-> FALSE, reply |-> [kind |-> "raised"]]
        ELSE
        LET user          == Load(d, u)
            subscriptions == Toggled(user.subscriptions, category)
            assigned      == [user EXCEPT !.subscriptions = subscriptions,
                                          !.dirty = @ \cup {"subscriptions"}]
        IN  [db |-> Commit(d, assigned), done |-> TRUE,
             reply |-> [kind |-> "edited", category |-> category,
                        status |-> subscriptions[category],
                        settings |-> subscriptions]]

\* the number of commands recorded so far
CmdCount == IF lastCmd = NoCmd THEN 0 ELSE lastCmd.n

\* what a command record keeps of the command before it
Brief(c) == IF c.kind = "toggle"
            THEN [kind |-> c.kind, user |-> c.user, category |-> c.category,
                  done |-> c.done, before |-> c.before]
            ELSE [kind |-> c.kind]

\* CallbackQueryHandler(subscription_callback, pattern='^(crypto|stocks|news)$')
ToggleSubscription ==
    /\ CmdCount < MaxToggles
    /\ \E tg \in Senders, category \in Categories, commit_ok \in BOOLEAN :
        LET out == subscription_callback(db, tg, category, commit_ok)
            u   == FindUser(db, tg)
        IN  /\ db' = out.db
            /\ lastCmd' = [kind |-> "toggle", n |-> CmdCount + 1, tg |-> tg, user |-> u,
                            category |-> category, done |-> out.done,
                            before |-> IF u = 0 THEN <<>> ELSE db[u].subscriptions,
                            after |-> IF u = 0 THEN <<>> ELSE out.db[u].subscriptions,
                            reply |-> out.reply, prev |-> Brief(lastCmd)]
    /\ UNCHANGED <<alertVars, probe, clock, lastTrack, news, signedOut, digestVars, schedVars>>

\* ---------------------------------------------------------------- register
\* context.args of /register: nothing, or an email and a password
RegisterArgs ==
    {<<>>} \cup {<<EmailOf(u), pw>> : u \in 1..3, pw \in {"pw", "other"}}

\* select(User).where(User.email == email).scalar(); 0 for None
FindEmail(d, email) ==
    IF \E u \in DOMAIN d : d[u].email = email
    THEN CHOOSE u \in DOMAIN d : d[u].email = email
    ELSE 0

\* The INSERT of session.add(new_user) at commit: the row gets the next id;
\* the unique constraints on email and telegram_id raise IntegrityError.
Insert(d, row) ==
    IF \E u \in DOMAIN d : d[u].email = row.email \/ d[u].telegram_id = row.telegram_id
    THEN [raised |-> TRUE, db |-> d]
    ELSE LET id == IF DOMAIN d = {} THEN 1 ELSE Max(DOMAIN d) + 1
         IN  [raised |-> FALSE,
              db |-> [u \in DOMAIN d \cup {id} |-> IF u = id THEN row ELSE d[u]]]

\* a slip: an existing email is taken over by the new registration
register_overwrites(d, tg, args, commit_ok) ==
    IF Len(args) # 2 THEN [db |-> d, reply |-> "usage"]
    ELSE
    LET email  == args[1]
        hashed == hashpw(args[2])
        found  == FindEmail(d, email)
        row    == Row(tg, email, hashed, TRUE, DefaultSubscriptions, DefaultTrackedTickers)
    IN  IF found # 0
        THEN [db |-> [d EXCEPT ![found].password_hash = hashed,
                               ![found].is_authenticated = TRUE],
              reply |-> "registered"]
        ELSE IF ~commit_ok \/ Insert(d, row).raised THEN [db |-> d, reply |-> "raised"]
        ELSE [db |-> Insert(d, row).db, reply |-> "registered"]

\* The handler: the users table afterwards and the reply.  There is no
\* try/except: a commit that raises leaves the table as it was.
register(d, tg, args, commit_ok) ==
    IF Len(args) # 2 THEN [db |-> d, reply |-> "usage"]
    ELSE
    LET email  == args[1]
        hashed == hashpw(args[2])
        row    == Row(tg, email, hashed, TRUE, DefaultSubscriptions, DefaultTrackedTickers)
    IN  IF FindEmail(d, email) # 0 THEN [db |-> d, reply |-> "exists"]
        ELSE IF ~commit_ok \/ Insert(d, row).raised THEN [db |-> d, reply |-> "raised"]
        ELSE [db |-> Insert(d, row).db, reply |-> "registered"]

Register ==
    /\ \E tg \in Senders, args \in RegisterArgs, commit_ok \in BOOLEAN :
        LET out == register(db, tg, args, commit_ok)
        IN  /\ db' = out.db
            /\ lastCmd' = [kind |-> "register", n |-> CmdCount, tg |-> tg, args |-> args,
                            before |-> db, after |-> out.db, reply |-> out.reply]
            /\ signedOut' = IF out.reply = "registered" THEN signedOut \ {tg} ELSE signedOut
    /\ UNCHANGED <<alertVars, probe, clock, lastTrack, news, digestVars, schedVars>>

\* ------------------------------------------------------------------ logout
\* The handler: the users table afterwards.  A commit that raises leaves the
\* row as it was.
logout(d, tg, commit_ok) ==
    LET u == FindUser(d, tg)
    IN  IF u = 0 \/ ~commit_ok THEN d
        ELSE Commit(d, [Load(d, u) EXCEPT !.is_authenticated = FALSE,
                                          !.dirty = @ \cup {"is_authenticated"}])

Logout ==
    /\ \E tg \in Senders, commit_ok \in BOOLEAN :
        /\ db' = logout(db, tg, commit_ok)
        /\ lastCmd' = [kind |-> "logout", n |-> CmdCount, tg |-> tg,
                        user |-> FindUser(db, tg), done |-> db' # db]
        /\ signedOut' = IF FindUser(db, tg) = 0 \/ commit_ok
                         THEN signedOut \cup {tg} ELSE signedOut
    /\ UNCHANGED <<alertVars, probe, clock, lastTrack, news, digestVars, schedVars>>

\* ------------------------------------------------------------------- login
\* context.args of /login: nothing, or an email and a password
LoginArgs ==
    {<<>>} \cup {<<EmailOf(u), pw>> : u \in 1..3, pw \in {"pw", "other"}}

\* bcrypt.checkpw(password, password_hash)
checkpw(password, password_hash) == password_hash = hashpw(password)

\* The UPDATE of session.commit() for a loaded user: telegram_id is a unique
\* column, so a value that another row holds raises IntegrityError.
Update(d, obj) ==
    IF /\ "telegram_id" \in obj.dirty
       /\ \E u \in DOMAIN d : u # obj.id /\ d[u].telegram_id = obj.telegram_id
    THEN [raised |-> TRUE, db |-> d]
    ELSE [raised |-> FALSE, db |-> Commit(d, obj)]

\* The handler: the users table afterwards and the reply.  There is no
\* try/except: a commit that raises leaves the row as it was and no reply.
login(d, tg, args, commit_ok) ==
    IF Len(args) # 2 THEN [db |-> d, reply |-> "usage"]
    ELSE
    LET email    == args[1]
        password == args[2]
        u        == FindEmail(d, email)
    IN  IF u = 0 THEN [db |-> d, reply |-> "wrong"]
        ELSE IF ~checkpw(password, d[u].password_hash) THEN [db |-> d, reply |-> "wrong"]
        ELSE
        LET assigned == [Load(d, u) EXCEPT !.is_authenticated = TRUE,
                                           !.telegram_id = tg,
                                           !.dirty = @ \cup {"is_authenticated", "telegram_id"}]
        IN  IF ~commit_ok \/ Update(d, assigned).raised
            THEN [db |-> d, reply |-> "raised"]
            ELSE [db |-> Update(d, assigned).db, reply |-> "welcome"]

Login ==
    /\ \E tg \in Senders, args \in LoginArgs, commit_ok \in BOOLEAN :
        LET out == login(db, tg, args, commit_ok)
            u   == IF Len(args) = 2 THEN FindEmail(db, args[1]) ELSE 0
        IN  /\ db' = out.db
            /\ lastCmd' = [kind |-> "login", n |-> CmdCount, tg |-> tg, args |-> args,
                            user |-> u, commit_ok |-> commit_ok,
                            correct |-> u # 0 /\ checkpw(args[2], db[u].password_hash),
                            before |-> IF u = 0 THEN <<>> ELSE db[u],
                            after |-> IF u = 0 THEN <<>> ELSE out.db[u],
                            reply |-> out.reply]
            /\ signedOut' = IF out.reply = "welcome" THEN signedOut \ {tg} ELSE signedOut
    /\ UNCHANGED <<alertVars, probe, clock, lastTrack, news, digestVars, schedVars>>

\* ---------------------------------------------------------- news_subscribe
\* str.lower of the words used here; ilike compares without case
lower(w) == IF w = "Bitcoin" THEN "bitcoin" ELSE w

ilike(stored, query) ==
    /\ Len(stored) = Len(query)
    /\ \A i \in 1..Len(query) : lower(stored[i]) = lower(query[i])

\* context.args of /news_subscribe; " ".join(context.args) keeps the words
NewsArgs == {<<>>, <<"Bitcoin">>, <<"bitcoin">>}

\* The handler: the news_subscriptions table afterwards and the reply.  The
\* sender needs a bound user; is_authenticated is not looked at.
news_subscribe(d, table, tg, args, commit_ok) ==
    LET u == FindUser(d, tg)
    IN  IF Len(args) < 1 THEN [news |-> table, reply |-> "usage"]
        ELSE IF u = 0 THEN [news |-> table, reply |-> "login"]
        ELSE IF \E i \in 1..Len(table) :
                    table[i].user_id = u /\ ilike(table[i].query, args)
        THEN [news |-> table, reply |-> "already"]
        ELSE IF ~commit_ok THEN [news |-> table, reply |-> "raised"]
        ELSE [news |-> Append(table, [user_id |-> u, query |-> args]),
              reply |-> "subscribed"]

NewsSubscribe ==
    /\ \E tg \in Senders, args \in NewsArgs, commit_ok \in BOOLEAN :
        LET out == news_subscribe(db, news, tg, args, commit_ok)
            u   == FindUser(db, tg)
        IN  /\ news' = out.news
            /\ lastCmd' = [kind |-> "news", n |-> CmdCount, tg |-> tg, user |-> u,
                            auth |-> u # 0 /\ db[u].is_authenticated,
                            args |-> args, before |-> news, after |-> out.news,
                            reply |-> out.reply]
    /\ UNCHANGED <<db, signedOut, alertVars, probe, clock, lastTrack, digestVars, schedVars>>

\* ------------------------------------------------------ send_daily_summary
NoDigest == [state |-> "none", selected |-> <<>>, users |-> <<>>]

\* select(User).where(User.subscriptions != {}), in id order
RECURSIVE SelectSubscribed(_, _)
SelectSubscribed(d, u) ==
    IF u > NumUsers THEN <<>>
    ELSE IF d[u].subscriptions # <<>>
         THEN <<u>> \o SelectSubscribed(d, u + 1)
         ELSE SelectSubscribed(d, u + 1)

\* what the two adapters the digest calls can give it
BenchmarkResults(category) ==
    IF category = "crypto"
    THEN {get_binance_price(BTCUSDT, o) : o \in BinanceOutcomes}
    ELSE {get_moex_price(SBER, o) : o \in MoexOutcomes}

DigestLine(category, price) == [category |-> category, price |-> price]

\* One `try: if user.subscriptions.get(category): ... summary.append(...)`:
\* the summary afterwards.  An adapter that raises is logged and adds no line.
CategoryLines(summary, subscriptions, category, res) ==
    IF ~IsOn(subscriptions, category) THEN summary
    ELSE IF res.raised THEN summary
    ELSE Append(summary, DigestLine(category, res.value))

\* `summary = []` at the start of each user's iteration
NewSummary(previous) == <<>>

\* a slip: the digest notes in the user's subscriptions that it was sent
AfterDigest_marks_sent(d, user, sent) ==
    IF sent THEN [d EXCEPT ![user.id].subscriptions = Put(@, "sent", TRUE)] ELSE d

\* The users table after one user's iteration: the loop reads
\* user.subscriptions and user.telegram_id, assigns nothing, and the session
\* is closed without a commit.
AfterDigest(d, user, sent) == d

DigestStart ==
    /\ dpc = "idle"
    /\ LET ids == SelectSubscribed(db, 1)
       IN  /\ dsess' = [i \in 1..Len(ids) |-> Load(db, ids[i])]
           /\ dpc' = IF ids = <<>> THEN "idle" ELSE "user"
           /\ dlog' = [state |-> IF ids = <<>> THEN "done" ELSE "running",
                        selected |-> ids, users |-> <<>>]
    /\ dui' = 1
    /\ digests' = <<>>
    /\ UNCHANGED <<db, alertVars, probe, clock, lastTrack, cmdVars, schedVars>>

\* One iteration of `for user in users`: both categories, then the message.
\* A send that raises leaves the invocation through the outer except.
DigestUser ==
    /\ dpc = "user"
    /\ \E btc \in BenchmarkResults("crypto"), sber_price \in BenchmarkResults("stocks"),
          send_ok \in BOOLEAN :
        LET user     == dsess[dui]
            previous == IF dui = 1 THEN <<>> ELSE dlog.users[dui - 1].summary
            crypto   == CategoryLines(NewSummary(previous), user.subscriptions, "crypto", btc)
            summary  == CategoryLines(crypto, user.subscriptions, "stocks", sber_price)
            sending  == summary # <<>>
            failed   == sending /\ ~send_ok
            entry    == [id |-> user.id,
                         crypto |-> IF ~IsOn(user.subscriptions, "crypto") THEN "off"
                                    ELSE IF btc.raised THEN "raised" ELSE "line",
                         stocks |-> IF ~IsOn(user.subscriptions, "stocks") THEN "off"
                                    ELSE IF sber_price.raised THEN "raised" ELSE "line",
                         btc |-> btc.value, sber |-> sber_price.value,
                         summary |-> summary,
                         send |-> IF ~sending THEN "none" ELSE IF send_ok THEN "ok" ELSE "raised"]
        IN  /\ digests' = IF sending /\ send_ok
                           THEN Append(digests, [chat_id |-> user.telegram_id, lines |-> summary])
                           ELSE digests
            /\ dlog' = [dlog EXCEPT !.users = Append(@, entry),
                                     !.state = IF failed THEN "aborted"
                                               ELSE IF dui < Len(dsess) THEN @ ELSE "done"]
            /\ dpc' = IF failed \/ dui = Len(dsess) THEN "idle" ELSE "user"
            /\ dui' = IF failed \/ dui = Len(dsess) THEN dui ELSE dui + 1
            /\ db' = AfterDigest(db, user, sending /\ send_ok)
    /\ UNCHANGED <<dsess, alertVars, probe, clock, lastTrack, cmdVars, schedVars>>

\* ---------------------------------------------------------- the scheduler
\* AsyncIOScheduler(job_defaults={"misfire_grace_time": 60*5}); seconds
JobDefaults_grace_left_out == [c \in {} |-> 0]

JobDefaults_two_instances == [misfire_grace_time |-> 300, max_instances |-> 2]

JobDefaults == [misfire_grace_time |-> 300]

\* what the scheduler takes for an option job_defaults does not give
misfire_grace_time ==
    IF Has(JobDefaults, "misfire_grace_time") THEN JobDefaults.misfire_grace_time ELSE 1
max_instances ==
    IF Has(JobDefaults, "max_instances") THEN JobDefaults.max_instances ELSE 1

\* add_job(check_price_alerts, "interval", minutes=5)
IntervalMinutes == 5
\* CronTrigger(hour=9, minute=0): the minute of the day
CronMinute == 540
MinutesPerDay == 1440

\* wall-clock time at scheduler.start()
StartMinute == 537

JobNames == {"daily_summary", "price_alerts"}

\* the time between two occurrences of a job
Period(j) == IF j = "price_alerts" THEN IntervalMinutes ELSE MinutesPerDay

\* scheduler.add_job(...) twice, then scheduler.start(): the interval job
\* first fires one interval after the start, the cron job at the next 09:00
AddedJobs ==
    [j \in JobNames |->
        IF j = "price_alerts"
        THEN [func |-> "check_price_alerts", next_run_time |-> StartMinute + IntervalMinutes]
        ELSE [func |-> "send_daily_summary",
              next_run_time |-> IF StartMinute <= CronMinute THEN CronMinute
                                ELSE CronMinute + MinutesPerDay]]

\* job._get_run_times(now): the occurrences that are due
DueRunTimes(j, t) ==
    {r \in jobs[j].next_run_time..t : (r - jobs[j].next_run_time) % Period(j) = 0}

InFlight(j) == {i \in running : i.job = j}

\* a slip: the job body has no outer try/except, its failure leaves the body
JobOutcome_propagates(result) == IF result = "aborted" THEN "raised" ELSE "returned"

\* What the scheduler sees of an invocation: both bodies are one
\* try/except Exception that logs, so they return whether the body ended
\* normally or was aborted by a failure.
JobOutcome(result) == "returned"

\* the event loop is held up (a blocking call, a suspended process) ...
Block ==
    /\ loop = "free"
    /\ loop' = "blocked"
    /\ UNCHANGED <<db, alertVars, probe, clock, lastTrack, cmdVars, digestVars>>
    /\ UNCHANGED <<minute, jobs, running, schedLog>>

\* ... and runs again
Unblock ==
    /\ loop = "blocked"
    /\ loop' = "free"
    /\ UNCHANGED <<db, alertVars, probe, clock, lastTrack, cmdVars, digestVars>>
    /\ UNCHANGED <<minute, jobs, running, schedLog>>

\* A minute passes.  A free loop wakes the scheduler at the next run time,
\* so time passes over a due job only while the loop is blocked.
Tick ==
    /\ minute < StartMinute + MaxMinutes
    /\ loop = "blocked" \/ \A j \in DOMAIN jobs : jobs[j].next_run_time > minute
    /\ minute' = minute + 1
    /\ UNCHANGED <<db, alertVars, probe, clock, lastTrack, cmdVars, digestVars>>
    /\ UNCHANGED <<loop, jobs, running, schedLog>>

\* The scheduler's wake-up for one due job.  With the default coalesce only
\* the latest due occurrence is submitted; it is rejected when max_instances
\* instances are in flight, dropped when it is later than the grace time,
\* and run otherwise.  The job then waits for the occurrence after it.
ProcessJob(j) ==
    /\ loop = "free"
    /\ jobs[j].next_run_time <= minute
    /\ LET due      == DueRunTimes(j, minute)
           last     == Max(due)
           decision == IF Cardinality(InFlight(j)) >= max_instances THEN "max_instances"
                       ELSE IF (minute - last) * 60 > misfire_grace_time THEN "missed"
                       ELSE "run"
       IN  /\ running' = IF decision = "run"
                          THEN running \cup {[job |-> j, run_time |-> last]}
                          ELSE running
           /\ schedLog' = schedLog \cup
                   {[kind |-> "occurrence", job |-> j, run_time |-> r, at |-> minute,
                     inflight |-> Cardinality(InFlight(j)), last |-> last,
                     decision |-> IF r = last THEN decision ELSE "coalesced"] : r \in due}
           /\ jobs' = [jobs EXCEPT ![j].next_run_time = last + Period(j)]
    /\ UNCHANGED <<db, alertVars, probe, clock, lastTrack, cmdVars, digestVars>>
    /\ UNCHANGED <<minute, loop>>

\* An invocation in flight ends, normally or after a failure in its body.
\* The job stays in the job store either way.
FinishJob ==
    /\ loop = "free"
    /\ \E i \in running, result \in {"done", "aborted"} :
        /\ running' = running \ {i}
        /\ schedLog' = schedLog \cup
                {[kind |-> "ended", job |-> i.job, run_time |-> i.run_time, at |-> minute,
                  result |-> result, outcome |-> JobOutcome(result)]}
    /\ UNCHANGED <<db, alertVars, probe, clock, lastTrack, cmdVars, digestVars>>
    /\ UNCHANGED <<minute, loop, jobs>>

\* ------------------------------------------- direct calls of the resolver
Adapters == {"binance", "bybit", "moex", "tinkoff"}

CallAdapter(a, symbol, env) ==
    CASE a = "binance" -> get_binance_price(symbol, env.binance)
      [] a = "bybit"   -> get_bybit_price(symbol, env.bybit)
      [] a = "moex"    -> get_moex_price(symbol, env.moex)
      [] a = "tinkoff" -> get_tinkoff_price(symbol, env.tinkoff)

\* `await exchanges.get_price(ticker)` for any symbol and provider outcomes
ResolvePrice ==
    /\ probe = NoProbe
    /\ \E t \in Tickers, env \in Envs :
            probe' = [op |-> "get_price", ticker |-> t, env |-> env,
                      res |-> get_price(t, env)]
    /\ UNCHANGED <<db, apc, sess, ui, ti, alerts, outbox, passLog, lastStep, seen, clock, lastTrack>>
    /\ UNCHANGED <<cmdVars, digestVars, schedVars>>

\* one adapter called on its own, as handlers.stock and send_daily_summary do
FetchFrom ==
    /\ probe = NoProbe
    /\ \E a \in Adapters, t \in Tickers, env \in Envs :
            probe' = [op |-> "adapter", adapter |-> a, ticker |-> t,
                      outcome |-> env[a], res |-> CallAdapter(a, t, env),
                      steps |-> IF a = "binance" THEN BinanceSteps(env[a]) ELSE <<>>]
    /\ UNCHANGED <<db, apc, sess, ui, ti, alerts, outbox, passLog, lastStep, seen, clock, lastTrack>>
    /\ UNCHANGED <<cmdVars, digestVars, schedVars>>

\* The /stock handler: the reply for context.args and the providers'
\* outcomes.  A crypto symbol asks Binance, then Bybit; any other symbol
\* MOEX, then Tinkoff; an adapter that raises gives the error reply.
stock(args, env) ==
    IF Len(args) < 1 THEN [kind |-> "usage", ticker |-> <<>>, lines |-> <<>>]
    ELSE
    LET ticker == upper(args[1])
    IN  IF IsCrypto(ticker)
        THEN LET binance == get_binance_price(ticker, env.binance)
                 bybit   == get_bybit_price(ticker, env.bybit)
             IN  IF binance.raised \/ bybit.raised
                 THEN [kind |-> "error", ticker |-> ticker, lines |-> <<>>]
                 ELSE [kind |-> "quote", ticker |-> ticker,
                       lines |-> <<[source |-> "Binance", price |-> binance.value],
                                   [source |-> "Bybit", price |-> bybit.value]>>]
        ELSE LET moex    == get_moex_price(ticker, env.moex)
                 tinkoff == get_tinkoff_price(ticker, env.tinkoff)
             IN  IF moex.raised \/ tinkoff.raised
                 THEN [kind |-> "error", ticker |-> ticker, lines |-> <<>>]
                 ELSE [kind |-> "quote", ticker |-> ticker,
                       lines |-> <<[source |-> "Tinkoff", price |-> tinkoff.value],
                                   [source |-> "MOEX", price |-> moex.value]>>]

StockArgs == {<<>>} \cup {<<sym>> : sym \in CommandSymbols}

\* a slip: the handler stores the quote it shows in the users table
StockCommand_stores ==
    /\ probe = NoProbe
    /\ \E args \in StockArgs, env \in Envs :
        LET reply == stock(args, env)
        IN  /\ probe' = [op |-> "stock", args |-> args, env |-> env, reply |-> reply]
            /\ db' = [u \in DOMAIN db |->
                        [db[u] EXCEPT !.tracked_tickers =
                            [i \in 1..Len(@) |->
                                IF reply.kind = "quote" /\ Has(@[i], "ticker")
                                   /\ @[i].ticker = reply.ticker
                                THEN Put(@[i], "last_price", reply.lines[1].price)
                                ELSE @[i]]]]
    /\ UNCHANGED <<apc, sess, ui, ti, alerts, outbox, passLog, lastStep, seen, clock, lastTrack>>
    /\ UNCHANGED <<cmdVars, digestVars, schedVars>>

\* a /stock command for any symbol and provider outcomes; the handler opens
\* no session
StockCommand ==
    /\ probe = NoProbe
    /\ \E args \in StockArgs, env \in Envs :
            probe' = [op |-> "stock", args |-> args, env |-> env,
                      reply |-> stock(args, env)]
    /\ UNCHANGED <<db, apc, sess, ui, ti, alerts, outbox, passLog, lastStep, seen, clock, lastTrack>>
    /\ UNCHANGED <<cmdVars, digestVars, schedVars>>

\* ------------------------------------------------------------ specification
\* what every specification starts from, whatever the users table holds
InitRest ==
    /\ apc = "idle"
    /\ sess = <<>>
    /\ ui = 1
    /\ ti = 1
    /\ alerts = <<>>
    /\ outbox = <<>>
    /\ passLog = EmptyLog
    /\ lastStep = NoStep
    /\ seen = [state |-> "none", resolved |-> [u \in UserIds |-> <<>>]]
    /\ probe = NoProbe
    /\ clock = 1
    /\ lastTrack = NoTrack
    /\ news = <<>>
    /\ lastCmd = NoCmd
    /\ signedOut = {}
    /\ dpc = "idle"
    /\ dsess = <<>>
    /\ dui = 1
    /\ digests = <<>>
    /\ dlog = NoDigest
    /\ minute = StartMinute
    /\ loop = "free"
    /\ jobs = AddedJobs
    /\ running = {}
    /\ schedLog = {}

\* the users table of an earlier run: every user registered and logged in
\* (handlers.register), with any of the stored lists
Init ==
    /\ \E lists \in [UserIds -> InitialLists] :
            db = [u \in UserIds |->
                    Row(TelegramIdOf(u), EmailOf(u), hashpw(PasswordOf(u)), TRUE,
                        DefaultSubscriptions, lists[u])]
    /\ InitRest

Next ==
    \/ AlertStart
    \/ AlertTicker
    \/ AlertSend
    \/ AlertCommit

Spec == Init /\ [][Next]_vars

\* The /track command on its own.
NextTrack ==
    \/ Track

SpecTrack == Init /\ [][NextTrack]_vars

\* Subscription dicts as the program stores them: the column default, what
\* toggles make of it, and dicts of earlier data in which a category is absent.
InitialSubscriptions ==
    { DefaultSubscriptions,
      [DefaultSubscriptions EXCEPT !["crypto"] = TRUE],
      [c \in Categories |-> TRUE],
      [c \in {"crypto"} |-> TRUE],
      [c \in {} |-> TRUE] }

\* the users table with any of the stored subscription dicts
InitSubs ==
    /\ \E subs \in [UserIds -> InitialSubscriptions] :
            db = [u \in UserIds |->
                    Row(TelegramIdOf(u), EmailOf(u), hashpw(PasswordOf(u)), TRUE,
                        subs[u], DefaultTrackedTickers)]
    /\ InitRest

\* The subscription buttons on their own.
NextSubs ==
    \/ ToggleSubscription

SpecSubs == InitSubs /\ [][NextSubs]_vars

\* The three kinds of processing that write a user's row, each on its own
\* from every stored state: one behaviour holds alert passes, or /track
\* commands, or subscription toggles.
InitShared ==
    /\ Init
    /\ \A u \in UserIds :
            db[u].tracked_tickers \in
                {DefaultTrackedTickers,
                 <<TrackedItem(SBER, 5, 100), TrackedItem(BTCUSDT, 5, 100)>>}

NoPass == passLog = EmptyLog
NoCommand == lastTrack = NoTrack /\ lastCmd = NoCmd

NextShared ==
    \/ NoCommand /\ AlertStart
    \/ NoCommand /\ AlertTicker
    \/ NoCommand /\ AlertSend
    \/ NoCommand /\ AlertCommit
    \/ NoPass /\ lastCmd = NoCmd /\ Track
    \/ NoPass /\ lastTrack = NoTrack /\ ToggleSubscription

SpecShared == InitShared /\ [][NextShared]_vars

\* Registration, from an empty users table or from one that holds users
\* that registered, tracked and logged out earlier.
InitRegister ==
    /\ \E ids \in {{}, {1}, {1, 2}} : \E auth \in [ids -> BOOLEAN] :
            db = [u \in ids |->
                    Row(TelegramIdOf(u), EmailOf(u), hashpw(PasswordOf(u)), auth[u],
                        DefaultSubscriptions,
                        IF u = 1 THEN <<TrackedItem(SBER, 5, 100)>> ELSE DefaultTrackedTickers)]
    /\ InitRest

NextRegister ==
    \/ Register

SpecRegister == InitRegister /\ [][NextRegister]_vars

\* News subscriptions, with users logging out.
InitNews ==
    /\ Init
    /\ \A u \in UserIds : db[u].tracked_tickers = DefaultTrackedTickers

NextNews ==
    \/ Logout
    \/ NewsSubscribe

SpecNews == InitNews /\ [][NextNews]_vars

\* Pass after pass, five minutes apart, over a users table that no command
\* changes in between.
InitTicks ==
    /\ \E list \in {<<TrackedItem(SBER, 5, 100)>>,
                     <<TrackedItem(BTCUSDT, 3, 0), TrackedItem(SBER, 3, 100)>>} :
            db = [u \in UserIds |->
                    Row(TelegramIdOf(u), EmailOf(u), hashpw(PasswordOf(u)), TRUE,
                        DefaultSubscriptions,
                        IF u = 1 THEN list ELSE DefaultTrackedTickers)]
    /\ InitRest

NextTicks ==
    \/ passLog = EmptyLog /\ AlertStart
    \/ AlertAgain
    \/ AlertTicker
    \/ AlertSend
    \/ AlertCommit

SpecTicks == InitTicks /\ [][NextTicks]_vars

\* Accounts and /track.  Two users have registered from their own Telegram
\* accounts; then come registrations of a further user, logins and logouts
\* in any order, and then one /track command: bare, for SBER, or with a
\* threshold that is no number.
InitAccounts ==
    /\ db = [u \in 1..2 |->
                Row(TelegramIdOf(u), EmailOf(u), hashpw(PasswordOf(u)), TRUE,
                    DefaultSubscriptions,
                    IF u = 1 THEN <<TrackedItem(SBER, 5, 100)>> ELSE DefaultTrackedTickers)]
    /\ InitRest

NextAccounts ==
    \/ lastTrack = NoTrack /\ Register /\ lastCmd'.args = <<EmailOf(3), "pw">>
    \/ lastTrack = NoTrack /\ Login
    \/ lastTrack = NoTrack /\ Logout
    \/ lastTrack = NoTrack /\ TrackWith({<<>>, <<SBER>>, <<sber, RemoveArg>>})

SpecAccounts == InitAccounts /\ [][NextAccounts]_vars

\* One alert pass and /track commands for SBER (tracked) and USDTRUB (new)
\* from the tracking user, interleaved at their awaits.
InitRace ==
    /\ db = [u \in UserIds |->
                Row(TelegramIdOf(u), EmailOf(u), hashpw(PasswordOf(u)), TRUE,
                    DefaultSubscriptions,
                    IF u = 1 THEN <<TrackedItem(SBER, 5, 100), TrackedItem(BTCUSDT, 5, 100)>>
                    ELSE DefaultTrackedTickers)]
    /\ InitRest

NextRace ==
    \/ passLog = EmptyLog /\ AlertStart
    \/ AlertTicker
    \/ AlertSend
    \/ AlertCommit
    \/ TrackBegin({<<SBER, NumberArg(10)>>, <<USDTRUB>>, <<>>})
    \/ TrackEnd

SpecRace == InitRace /\ [][NextRace]_vars

\* Users 1 and 2 track SBER or not and have the digest categories on or
\* not; users log out; then alert passes run, or digests.
InitQuiet ==
    /\ \E lists \in [1..2 -> {DefaultTrackedTickers, <<TrackedItem(SBER, 5, 100)>>}] :
       \E subs \in [1..2 -> {[c \in {} |-> TRUE], [c \in Categories |-> TRUE]}] :
            db = [u \in UserIds |->
                    Row(TelegramIdOf(u), EmailOf(u), hashpw(PasswordOf(u)), TRUE,
                        IF u <= 2 THEN subs[u] ELSE [c \in {} |-> TRUE],
                        IF u <= 2 THEN lists[u] ELSE DefaultTrackedTickers)]
    /\ InitRest

NextQuiet ==
    \/ NoPass /\ dlog = NoDigest /\ Logout
    \/ dlog = NoDigest /\ AlertStart
    \/ AlertTicker
    \/ AlertSend
    \/ AlertCommit
    \/ NoPass /\ DigestStart
    \/ DigestUser

SpecQuiet == InitQuiet /\ [][NextQuiet]_vars

\* Invocations of the two jobs with every await returning or raising in the
\* end: a coroutine that can take its next step takes it.  The two jobs share
\* no variable, so a behaviour holds alert passes or digests.
InitLive ==
    /\ db = [u \in UserIds |->
                Row(TelegramIdOf(u), EmailOf(u), hashpw(PasswordOf(u)), TRUE,
                    IF u <= 2 THEN [c \in Categories |-> TRUE] ELSE [c \in {} |-> TRUE],
                    IF u = 1 THEN <<TrackedItem(SBER, 5, 100), TrackedItem(BTCUSDT, 5, 100)>>
                    ELSE IF u = 2 THEN <<TrackedItem(SBER, 5, 100)>>
                    ELSE DefaultTrackedTickers)]
    /\ InitRest

NextLive ==
    \/ dlog = NoDigest /\ AlertStart
    \/ AlertTicker
    \/ AlertSend
    \/ AlertCommit
    \/ NoPass /\ DigestStart
    \/ DigestUser

Fairness ==
    /\ WF_vars(AlertTicker)
    /\ WF_vars(AlertSend)
    /\ WF_vars(AlertCommit)
    /\ WF_vars(DigestUser)

SpecLive == InitLive /\ [][NextLive]_vars /\ Fairness

\* Logging in and out, from a users table that holds users that registered
\* and logged out earlier.
NextLogin ==
    \/ Login
    \/ Logout

SpecLogin == InitRegister /\ [][NextLogin]_vars

\* The daily digest on its own.
NextDigest ==
    \/ DigestStart
    \/ DigestUser

SpecDigest == InitSubs /\ [][NextDigest]_vars

\* The scheduler on its own, with the two job bodies as invocations that end.
InitSched ==
    /\ Init
    /\ \A u \in UserIds : db[u].tracked_tickers = DefaultTrackedTickers

NextSched ==
    \/ Block
    \/ Unblock
    \/ Tick
    \/ \E j \in JobNames : ProcessJob(j)
    \/ FinishJob

SpecSched == InitSched /\ [][NextSched]_vars

\* The resolver on its own: get_price and the adapters applied to every
\* symbol and every combination of provider outcomes.
InitResolve ==
    /\ Init
    /\ db[1].tracked_tickers = <<TrackedItem(SBER, 5, 100), TrackedItem(BTCUSDT, 5, 100)>>
    /\ \A u \in UserIds \ {1} : db[u].tracked_tickers = <<>>

NextResolve ==
    \/ ResolvePrice
    \/ FetchFrom
    \/ StockCommand

SpecResolve == InitResolve /\ [][NextResolve]_vars

\* ------------------------------------------------------------------ claims
Ticked == lastStep.kind = "tick" /\ Has(lastStep.before, "ticker")

StepThreshold == IF Has(lastStep.before, "threshold") THEN lastStep.before.threshold ELSE 5

StepLine == [ticker |-> lastStep.before.ticker,
             last_price |-> lastStep.before.last_price,
             current_price |-> lastStep.value]

\* get_price gave no price: it raised, or returned the unresolved value 0.0
ResolutionFailed == lastStep.raised \/ lastStep.value = 0

\* C1: with a stored last_price L, threshold T and resolved price P, the
\* step adds the ticker's alert line to the batch exactly when
\* abs((P - L) / L * 100) >= T evaluates to true; a change equal to T fires.
C1_AlertIffChangeReachesThreshold ==
    (Ticked /\ Has(lastStep.before, "last_price") /\ ~ResolutionFailed) =>
        LET L == lastStep.before.last_price
            P == lastStep.value
            reaches == L # 0 /\ Abs(P - L) * 100 >= StepThreshold * Abs(L)
        IN  /\ reaches => lastStep.batchAfter = Append(lastStep.batchBefore, StepLine)
            /\ ~reaches => lastStep.batchAfter = lastStep.batchBefore

\* the boundary: last_price 100, threshold 5, resolved 105 fired
C1_Witness ==
    /\ Ticked
    /\ Has(lastStep.before, "last_price")
    /\ lastStep.before.last_price = 100
    /\ StepThreshold = 5
    /\ ~lastStep.raised
    /\ lastStep.value = 105
    /\ Len(lastStep.batchAfter) = Len(lastStep.batchBefore) + 1

\* every resolution of the latest pass gave a price
AllResolved ==
    \A u \in UserIds : \A i \in 1..Len(passLog.resolved[u]) : passLog.resolved[u][i] > 0

\* C2: after a completed pass in which every resolution succeeded, the
\* last_price in the store (what the next pass loads) is the price the pass
\* resolved for that ticker.
C2_StoredLastPriceIsLatestResolved ==
    (passLog.state = "done" /\ AllResolved) =>
        \A u \in UserIds : \A i \in 1..Len(passLog.resolved[u]) :
            /\ Has(db[u].tracked_tickers[i], "last_price")
            /\ db[u].tracked_tickers[i].last_price = passLog.resolved[u][i]

\* C3: a step whose resolution failed (get_price raised or returned 0.0)
\* leaves the item, last_price and updated_at included, as it was.
C3_FailedResolutionLeavesItem ==
    (Ticked /\ ResolutionFailed) => lastStep.after = lastStep.before

\* C4: a step whose resolution failed adds no alert line.
C4_FailedResolutionNoAlert ==
    (Ticked /\ ResolutionFailed) => lastStep.batchAfter = lastStep.batchBefore

\* C5: a step on an item without last_price adds no alert line, whatever the
\* threshold and the price; with a resolved price it changes the item only
\* by recording that price as last_price.
C5_FirstObservationNeverAlerts ==
    (Ticked /\ ~Has(lastStep.before, "last_price")) =>
        /\ lastStep.batchAfter = lastStep.batchBefore
        /\ ~ResolutionFailed =>
              /\ DOMAIN lastStep.after = DOMAIN lastStep.before \cup {"last_price"}
              /\ lastStep.after.last_price = lastStep.value
              /\ \A k \in DOMAIN lastStep.before : lastStep.after[k] = lastStep.before[k]

C5_Witness ==
    /\ Ticked
    /\ ~Has(lastStep.before, "last_price")
    /\ ~ResolutionFailed
    /\ Has(lastStep.after, "last_price")
    /\ lastStep.after.last_price = 105

\* ---- claims about get_price and the adapters (checked under SpecResolve)
Resolved == probe.op = "get_price"

CalledAdapters == {probe.res.calls[i].adapter : i \in 1..Len(probe.res.calls)}

\* the symbol's last characters are USDT, BTC or ETH
EndsInCryptoQuote(t) ==
    \/ Len(t) >= 4 /\ <<t[Len(t) - 3], t[Len(t) - 2], t[Len(t) - 1], t[Len(t)]>> = <<"U", "S", "D", "T">>
    \/ Len(t) >= 3 /\ <<t[Len(t) - 2], t[Len(t) - 1], t[Len(t)]>> \in {<<"B", "T", "C">>, <<"E", "T", "H">>}

\* what the Tinkoff and MOEX adapters give for the probed symbol
TinkoffGives == get_tinkoff_price(probe.ticker, probe.env.tinkoff)
MoexGives == get_moex_price(probe.ticker, probe.env.moex)

\* C6: for a symbol without crypto suffix, when Tinkoff returns 0, get_price
\* calls MOEX and returns MOEX's result.
C6_ZeroFromTinkoffFallsBackToMoex ==
    (Resolved /\ ~EndsInCryptoQuote(probe.ticker)
       /\ ~TinkoffGives.raised /\ TinkoffGives.value = 0) =>
        /\ "moex" \in CalledAdapters
        /\ probe.res.raised = MoexGives.raised
        /\ probe.res.value = MoexGives.value

\* C7: for a symbol without crypto suffix, when Tinkoff returns a nonzero
\* price, get_price returns that price and does not call MOEX.
C7_NonzeroTinkoffPriceWins ==
    (Resolved /\ ~EndsInCryptoQuote(probe.ticker)
       /\ ~TinkoffGives.raised /\ TinkoffGives.value # 0) =>
        /\ ~probe.res.raised
        /\ probe.res.value = probe.env.tinkoff.price
        /\ "moex" \notin CalledAdapters

\* Tinkoff quoted 103 and MOEX 105 for SBER, and get_price gave 103
C7_Witness ==
    /\ Resolved
    /\ probe.ticker = SBER
    /\ probe.env.tinkoff = [kind |-> "price", price |-> 103]
    /\ probe.env.moex = [kind |-> "price", price |-> 105]
    /\ probe.res.value = 103

\* C8: an adapter whose provider failed (client creation and teardown
\* included) returns 0.0 and does not raise.
C8_AdapterNeverRaises ==
    (probe.op = "adapter" /\ ProviderFailure(probe.outcome)) =>
        /\ ~probe.res.raised
        /\ probe.res.value = 0

\* every adapter of the chain the symbol is routed to failed
ChainFailed ==
    IF EndsInCryptoQuote(probe.ticker)
    THEN ProviderFailure(probe.env.binance)
    ELSE ProviderFailure(probe.env.tinkoff) /\ ProviderFailure(probe.env.moex)

\* C9: when every adapter of the routed chain failed, get_price returns 0.0
\* and does not raise.
C9_ExhaustedChainGivesZero ==
    (Resolved /\ ChainFailed) =>
        /\ ~probe.res.raised
        /\ probe.res.value = 0

\* C10: a symbol ending in USDT, BTC or ETH is resolved by Binance alone;
\* any other symbol by the equity adapters alone.
C10_RoutingBySuffix ==
    Resolved =>
        /\ CalledAdapters # {}
        /\ IF EndsInCryptoQuote(probe.ticker)
           THEN CalledAdapters = {"binance"} /\ Len(probe.res.calls) = 1
           ELSE CalledAdapters \subseteq {"tinkoff", "moex"}

\* USDTRUB, which carries USDT at the front only, went to Tinkoff
C10_Witness ==
    /\ Resolved
    /\ probe.ticker = USDTRUB
    /\ CalledAdapters = {"tinkoff"}

\* ------------------------------------------- claims about the whole pass
PassEnded == apc = "idle" /\ passLog.state \in {"done", "aborted"}

\* every item of the i-th selected user was visited
Visited(i) ==
    Len(passLog.resolved[sess[i].id]) = Len(passLog.loaded[sess[i].id])

\* the j-th item of user u as loaded had a ticker and a usable baseline (or
\* none yet), and get_price returned a value for it
Refreshable(u, j) ==
    LET item == passLog.loaded[u][j]
    IN  /\ Has(item, "ticker")
        /\ passLog.resolved[u][j] >= 0
        /\ (Has(item, "last_price") => item.last_price # 0)

\* C11: a pass in which no send and no commit failed runs to its end, visits
\* every item of every selected user, whatever resolution errors occurred,
\* and every item whose own resolution returned holds the resolved price.
C11_ResolutionErrorIsIsolated ==
    (PassEnded /\ passLog.failed = "none") =>
        /\ passLog.state = "done"
        /\ \A i \in 1..Len(sess) :
              /\ Visited(i)
              /\ \A j \in 1..Len(passLog.loaded[sess[i].id]) :
                    Refreshable(sess[i].id, j) =>
                        /\ Has(sess[i].tracked_tickers[j], "last_price")
                        /\ sess[i].tracked_tickers[j].last_price =
                              passLog.resolved[sess[i].id][j]

\* get_price raised for an item of the first user; a later item of that user
\* and an item of the next user were still refreshed
C11_Witness ==
    /\ PassEnded
    /\ passLog.state = "done"
    /\ Len(sess) >= 2
    /\ \E j \in 1..Len(passLog.loaded[sess[1].id]) :
          /\ Has(passLog.loaded[sess[1].id][j], "ticker")
          /\ passLog.resolved[sess[1].id][j] = -1
          /\ \E k \in (j + 1)..Len(passLog.loaded[sess[1].id]) :
                /\ passLog.resolved[sess[1].id][k] > 0
                /\ sess[1].tracked_tickers[k].last_price = passLog.resolved[sess[1].id][k]
    /\ \E k \in 1..Len(passLog.loaded[sess[2].id]) :
          /\ passLog.resolved[sess[2].id][k] > 0
          /\ sess[2].tracked_tickers[k].last_price = passLog.resolved[sess[2].id][k]

\* C12: when a send or a commit failed for one user, every user that comes
\* later in the pass is still processed.
C12_SendOrCommitFailureIsIsolated ==
    (PassEnded /\ passLog.failed # "none") =>
        \A i \in (ui + 1)..Len(sess) : Visited(i)

\* the lines the comparison yields for a loaded list and the prices resolved
RECURSIVE ExpectedLines(_, _, _)
ExpectedLines(items, prices, j) ==
    IF j > Len(items) \/ j > Len(prices) THEN <<>>
    ELSE LET item == items[j]
             T == IF Has(item, "threshold") THEN item.threshold ELSE 5
             fired == /\ Has(item, "ticker")
                      /\ Has(item, "last_price")
                      /\ item.last_price # 0
                      /\ prices[j] >= 0
                      /\ Abs(prices[j] - item.last_price) * 100 >= T * Abs(item.last_price)
         IN  (IF fired
              THEN <<[ticker |-> item.ticker, last_price |-> item.last_price,
                      current_price |-> prices[j]]>>
              ELSE <<>>)
             \o ExpectedLines(items, prices, j + 1)

\* the i-th selected user is past the notification step
SendDone(i) ==
    \/ i < ui
    \/ i = ui /\ (apc = "commit" \/ passLog.state = "done" \/ passLog.failed = "commit")

MessagesTo(chat) == {k \in 1..Len(outbox) : outbox[k].chat_id = chat}

\* C13: a user gets at most one notification per pass, exactly when a ticker
\* of theirs fired, holding the fired tickers' lines and no other.
C13_OneNotificationWithFiredLines ==
    (passLog.state \in {"running", "done", "aborted"}) =>
        \A i \in 1..Len(sess) :
            LET u == sess[i].id
                expected == ExpectedLines(passLog.loaded[u], passLog.resolved[u], 1)
                got == MessagesTo(sess[i].telegram_id)
            IN  /\ Cardinality(got) <= 1
                /\ ~SendDone(i) => got = {}
                /\ SendDone(i) =>
                      /\ (got # {}) = (expected # <<>>)
                      /\ \A k \in got : outbox[k].lines = expected

\* the second user was notified of both tickers after the first user was
\* notified of one
C13_Witness ==
    /\ Len(sess) >= 2
    /\ SendDone(2)
    /\ Len(outbox) = 2
    /\ Len(outbox[1].lines) = 1
    /\ Len(outbox[2].lines) = 2

\* ---------------------------------- claims about /track (under SpecTrack)
Tracked == lastTrack.kind = "track" /\ Len(lastTrack.args) >= 1

TrackSymbol == upper(lastTrack.args[1])

\* the command was accepted: the tracked list was rewritten and confirmed
TrackAccepted == Tracked /\ lastTrack.reply.kind = "tracking"

\* where the symbol was in the list before the command
PositionsBefore ==
    {i \in 1..Len(lastTrack.before) :
        Has(lastTrack.before[i], "ticker") /\ lastTrack.before[i].ticker = TrackSymbol}

PositionsAfter ==
    {i \in 1..Len(lastTrack.after) :
        Has(lastTrack.after[i], "ticker") /\ lastTrack.after[i].ticker = TrackSymbol}

KeepsOthers(t) == ~(Has(t, "ticker") /\ t.ticker = TrackSymbol)

\* C14: /track <symbol> remove by a logged-in user deletes the symbol's
\* entry, or leaves the list as it is when there is none, and reports no
\* error.
C14_RemoveDeletesEntry ==
    (Tracked /\ lastTrack.auth /\ Len(lastTrack.args) = 2 /\ lastTrack.args[2] = RemoveArg) =>
        /\ lastTrack.reply.kind # "error"
        /\ lastTrack.after = SelectSeq(lastTrack.before, KeepsOthers)

\* C15: no list holds two entries for one symbol; a /track of a symbol that
\* is already tracked rewrites threshold and price of its entry where it is
\* and leaves the other entries, their number and order as they were.
C15_OneEntryPerSymbol ==
    /\ \A u \in UserIds : \A i, j \in 1..Len(db[u].tracked_tickers) :
          (/\ i # j
           /\ Has(db[u].tracked_tickers[i], "ticker")
           /\ Has(db[u].tracked_tickers[j], "ticker"))
            => db[u].tracked_tickers[i].ticker # db[u].tracked_tickers[j].ticker
    /\ (TrackAccepted /\ PositionsBefore # {}) =>
          /\ Len(lastTrack.after) = Len(lastTrack.before)
          /\ PositionsAfter = PositionsBefore
          /\ \A i \in 1..Len(lastTrack.before) :
                IF i \in PositionsBefore
                THEN /\ lastTrack.after[i].last_price = lastTrack.value
                     /\ lastTrack.after[i].threshold =
                           (IF Len(lastTrack.args) = 2 THEN lastTrack.args[2].value ELSE 5)
                ELSE lastTrack.after[i] = lastTrack.before[i]

\* /track sber 10 rewrote the SBER entry in place, threshold 10
C15_Witness ==
    /\ TrackAccepted
    /\ lastTrack.args = <<sber, NumberArg(10)>>
    /\ PositionsBefore # {}
    /\ \E i \in PositionsAfter :
          /\ lastTrack.before[i].threshold # 10
          /\ lastTrack.after[i].threshold = 10

\* C16: an entry's added_at stays what it was through a /track of its symbol
\* and through an alert-pass step.
C16_AddedAtIsKept ==
    /\ TrackAccepted =>
          \A i \in PositionsBefore :
              Has(lastTrack.before[i], "added_at") =>
                  /\ Has(lastTrack.after[i], "added_at")
                  /\ lastTrack.after[i].added_at = lastTrack.before[i].added_at
    /\ (Ticked /\ Has(lastStep.before, "added_at")) =>
          /\ Has(lastStep.after, "added_at")
          /\ lastStep.after.added_at = lastStep.before.added_at

\* C17: updated_at is the time of the refresh after a pass step that stored
\* a resolved price, and after a /track that rewrote an existing entry.
C17_RefreshSetsUpdatedAt ==
    /\ (Ticked /\ ~ResolutionFailed /\ lastStep.how \in {"first", "compared"}) =>
          /\ Has(lastStep.after, "updated_at")
          /\ lastStep.after.updated_at = clock
    /\ TrackAccepted =>
          \A i \in PositionsBefore :
              /\ Has(lastTrack.after[i], "updated_at")
              /\ lastTrack.after[i].updated_at = lastTrack.now

\* C18: the entry a /track writes has a threshold above zero, and 5 when the
\* command gave none.
C18_ThresholdIsPositive ==
    TrackAccepted =>
        \A i \in PositionsAfter :
            /\ lastTrack.after[i].threshold > 0
            /\ Len(lastTrack.args) = 1 => lastTrack.after[i].threshold = 5

\* C19: a /track of a logged-in user for which get_price raised or returned
\* 0.0 answers 'could not get the price' and leaves the list as it was.
C19_NoPriceNoTracking ==
    (Tracked /\ lastTrack.auth /\ lastTrack.called /\ lastTrack.reply.kind # "error"
       /\ (lastTrack.raised \/ lastTrack.value = 0)) =>
        /\ lastTrack.reply.kind = "price_error"
        /\ lastTrack.after = lastTrack.before

\* ---------------------------------- claims about /stock (under SpecResolve)
\* no adapter /stock asks for the symbol has a price
NoQuoteAnywhere ==
    LET t == upper(probe.args[1])
    IN  IF EndsInCryptoQuote(t)
        THEN ProviderFailure(probe.env.binance) /\ ProviderFailure(probe.env.bybit)
        ELSE ProviderFailure(probe.env.moex) /\ ProviderFailure(probe.env.tinkoff)

\* C20: /stock for a symbol no adapter has a price for answers with the
\* error message, not with a quote.
C20_StockErrorWhenNoPrice ==
    (probe.op = "stock" /\ Len(probe.args) >= 1 /\ NoQuoteAnywhere) =>
        probe.reply.kind = "error"

\* C21: a /stock command, whatever the symbol and the providers' outcomes,
\* leaves the users table (tracked lists, subscriptions, authentication) and
\* the news subscriptions as they were.
C21_StockIsReadOnly ==
    [][probe'.op = "stock" => db' = db /\ news' = news]_vars

C21_Witness ==
    /\ probe.op = "stock"
    /\ probe.reply.kind = "quote"
    /\ \E u \in UserIds : \E i \in 1..Len(db[u].tracked_tickers) :
            /\ db[u].tracked_tickers[i].ticker = probe.reply.ticker
            /\ probe.reply.lines[1].price # db[u].tracked_tickers[i].last_price

Toggle == lastCmd.kind = "toggle" /\ lastCmd.done

\* C22: a toggle of category c by an existing user flips c (absent counts as
\* off) and leaves the user's other categories as they were; a second toggle
\* of c right after the first restores what was enabled before the first.
C22_ToggleFlipsOneCategory ==
    Toggle =>
        /\ IsOn(lastCmd.after, lastCmd.category) = ~IsOn(lastCmd.before, lastCmd.category)
        /\ \A c \in Categories \ {lastCmd.category} :
                /\ Has(lastCmd.after, c) = Has(lastCmd.before, c)
                /\ Has(lastCmd.before, c) => lastCmd.after[c] = lastCmd.before[c]
        /\ (/\ lastCmd.prev.kind = "toggle"
            /\ lastCmd.prev.done
            /\ lastCmd.prev.user = lastCmd.user
            /\ lastCmd.prev.category = lastCmd.category)
           => \A c \in Categories : IsOn(lastCmd.after, c) = IsOn(lastCmd.prev.before, c)

C22_Witness ==
    /\ Toggle
    /\ lastCmd.prev.kind = "toggle"
    /\ lastCmd.prev.done
    /\ lastCmd.prev.user = lastCmd.user
    /\ lastCmd.prev.category = lastCmd.category
    /\ ~Has(lastCmd.prev.before, lastCmd.category)
    /\ \E c \in Categories \ {lastCmd.category} : IsOn(lastCmd.after, c)

DigestEnded == dpc = "idle" /\ dlog.state \in {"done", "aborted"}

DigestsTo(chat) == {k \in 1..Len(digests) : digests[k].chat_id = chat}

EnabledCategories(u) == {c \in {"crypto", "stocks"} : IsOn(db[u].subscriptions, c)}

LineCategories(m) == {m.lines[i].category : i \in 1..Len(m.lines)}

\* the send of user u's own message raised
OwnSendFailed(u) ==
    \E i \in 1..Len(dlog.users) : dlog.users[i].id = u /\ dlog.users[i].send = "raised"

\* C23: when an invocation of send_daily_summary has ended, a user with
\* crypto or stocks enabled (whose own message did not fail to send) has got
\* one digest message with one line for each enabled category, and a user
\* with neither has got none.
C23_OneDigestWithEnabledLines ==
    DigestEnded =>
        \A u \in UserIds :
            LET got == DigestsTo(db[u].telegram_id)
            IN  IF EnabledCategories(u) = {}
                THEN got = {}
                ELSE /\ Cardinality(got) <= 1
                     /\ OwnSendFailed(u) \/ Cardinality(got) = 1
                     /\ \A k \in got :
                            /\ Len(digests[k].lines) = Cardinality(EnabledCategories(u))
                            /\ LineCategories(digests[k]) = EnabledCategories(u)

\* C24: when an invocation has ended, every selected user has been
\* processed, every enabled category whose adapter returned has its line,
\* and every user with a line whose own send did not fail has the message.
C24_DigestFailureIsIsolated ==
    DigestEnded =>
        /\ Len(dlog.users) = Len(dlog.selected)
        /\ \A i \in 1..Len(dlog.users) :
               LET e == dlog.users[i]
                   expected == {c \in {"crypto", "stocks"} : e[c] = "line"}
               IN  /\ {e.summary[j].category : j \in 1..Len(e.summary)} = expected
                   /\ (expected # {} /\ e.send # "raised")
                      => \E k \in DigestsTo(db[e.id].telegram_id) :
                            digests[k].lines = e.summary

\* C25: no job has two invocations in flight at once.
C25_NoOverlappingInvocations ==
    \A j \in JobNames : Cardinality({i \in running : i.job = j}) <= 1

\* an invocation still in flight when the job's next occurrence came, and
\* both jobs in flight together
C25_Witness ==
    /\ \E i \in running : \E o \in schedLog :
            /\ o.kind = "occurrence"
            /\ o.job = i.job
            /\ o.run_time > i.run_time
            /\ o.at = o.run_time
    /\ \A j \in JobNames : \E i \in running : i.job = j

Occurrences == {o \in schedLog : o.kind = "occurrence"}

Late(o) == o.at - o.run_time

OncePerOccurrence ==
    \A o1, o2 \in Occurrences :
        (o1.job = o2.job /\ o1.run_time = o2.run_time) => o1 = o2

\* C26: an occurrence the scheduler gets to no later than 5 minutes after
\* its scheduled instant is run, exactly once; one it gets to later than
\* that is skipped and never run afterwards.
C26_OccurrenceRunsWithinGrace ==
    /\ OncePerOccurrence
    /\ \A o \in Occurrences :
           IF Late(o) <= 5 THEN o.decision = "run" ELSE o.decision # "run"

\* C26 as amended: an occurrence the scheduler gets to no later than 5
\* minutes after its scheduled instant is run, exactly once, when no earlier
\* invocation of the job is still in flight and no later occurrence of the
\* job is already due; every other occurrence is skipped and never run
\* afterwards.
C26_RunsWithinGraceUnlessBusy ==
    /\ OncePerOccurrence
    /\ \A o \in Occurrences :
           IF Late(o) <= 5 /\ o.inflight = 0 /\ o.run_time = o.last
           THEN o.decision = "run"
           ELSE o.decision # "run"

C26_Witness ==
    /\ \E o \in Occurrences : o.decision = "run" /\ Late(o) > 0
    /\ \E o \in Occurrences : o.decision = "missed"
    /\ \E o \in Occurrences : o.decision = "max_instances" /\ Late(o) = 0

Ended == {e \in schedLog : e.kind = "ended"}

\* C27: an invocation whose body failed still returns to the scheduler;
\* after it both jobs are in the job store, the failed job waits for a later
\* occurrence, and an occurrence of it that comes after the failure, in
\* time and with no invocation in flight, is run.
C27_BodyFailureStaysInJob ==
    /\ DOMAIN jobs = JobNames
    /\ \A e \in Ended :
           /\ e.outcome = "returned"
           /\ jobs[e.job].next_run_time > e.run_time
           /\ \A o \in Occurrences :
                  (/\ o.job = e.job
                   /\ o.run_time > e.run_time
                   /\ o.at >= e.at
                   /\ o.at - o.run_time <= 5
                   /\ o.inflight = 0
                   /\ o.run_time = o.last)
                  => o.decision = "run"

C27_Witness ==
    \E e \in Ended :
        /\ e.result = "aborted"
        /\ \E o \in Occurrences :
               /\ o.job = e.job
               /\ o.run_time > e.run_time
               /\ o.at >= e.at
               /\ o.decision = "run"

\* C29: /news_subscribe <query> from a Telegram account that is not logged
\* in (bound to no user, or to a user with is_authenticated false) adds no
\* news subscription and is answered with the login prompt.
C29_NewsSubscribeNeedsLogin ==
    (lastCmd.kind = "news" /\ Len(lastCmd.args) >= 1 /\ ~lastCmd.auth)
        => lastCmd.after = lastCmd.before /\ lastCmd.reply = "login"

Registering == lastCmd.kind = "register" /\ Len(lastCmd.args) = 2

\* C30: /register with an email a stored user has adds no row and changes
\* none; no two rows of the users table share an email.
C30_EmailStaysUnique ==
    /\ \A u, v \in DOMAIN db : db[u].email = db[v].email => u = v
    /\ (/\ Registering
        /\ \E u \in DOMAIN lastCmd.before : lastCmd.before[u].email = lastCmd.args[1])
       => lastCmd.after = lastCmd.before

\* a second registration of a stored email, with another password and from
\* another Telegram account, after a registration that added a row
C30_Witness ==
    /\ Registering
    /\ \E u \in DOMAIN lastCmd.before :
            /\ lastCmd.before[u].email = lastCmd.args[1]
            /\ lastCmd.before[u].password_hash # hashpw(lastCmd.args[2])
            /\ lastCmd.before[u].telegram_id # lastCmd.tg
    /\ Cardinality(DOMAIN db) = 3

\* the step is a /track or a toggle sent from v's Telegram account, or the
\* commit of the pass for v
ActsFor(v) ==
    \/ lastTrack' # lastTrack /\ lastTrack'.tg = db[v].telegram_id
    \/ lastCmd' # lastCmd /\ lastCmd'.kind = "toggle" /\ lastCmd'.tg = db[v].telegram_id
    \/ apc = "commit" /\ sess[ui].id = v

\* C28: a step of /track, of a subscription toggle or of the alert pass
\* changes the stored tracked list and subscriptions of no user but the one
\* it is performed for, and a pass step on one user's item changes no
\* other loaded user.
C28_OtherUsersUntouched ==
    [][/\ \A v \in UserIds :
            (\/ db'[v].tracked_tickers # db[v].tracked_tickers
             \/ db'[v].subscriptions # db[v].subscriptions) => ActsFor(v)
       /\ (apc = "ticker" /\ apc' # "idle" /\ ti' = ti + 1)
            => \A k \in 1..Len(sess) : k # ui => sess'[k] = sess[k]]_vars

\* a /track that wrote the sender's list while another user's fields hold
\* the column defaults
C28_Witness ==
    /\ lastTrack.kind = "track"
    /\ lastTrack.reply.kind = "tracking"
    /\ lastTrack.after # lastTrack.before
    /\ \E v \in UserIds :
            /\ v # lastTrack.user
            /\ db[v].tracked_tickers = DefaultTrackedTickers
            /\ db[v].subscriptions = DefaultSubscriptions

\* ---- C31
LoggingIn == lastCmd.kind = "login" /\ Len(lastCmd.args) = 2

\* C31: a /login with an unknown email or a wrong password leaves the
\* targeted row's is_authenticated and telegram_id as they were; a /login
\* with the right password, when the store itself does not fail, leaves the
\* row authenticated and bound to the sender's Telegram id; a /logout that the
\* store commits leaves the sender's row not authenticated.
C31_LoginAndLogout ==
    /\ LoggingIn /\ lastCmd.user # 0 /\ ~lastCmd.correct
            => /\ lastCmd.after.is_authenticated = lastCmd.before.is_authenticated
               /\ lastCmd.after.telegram_id = lastCmd.before.telegram_id
    /\ LoggingIn /\ lastCmd.correct /\ lastCmd.commit_ok
            => /\ lastCmd.after.is_authenticated
               /\ lastCmd.after.telegram_id = lastCmd.tg
    /\ lastCmd.kind = "logout" /\ lastCmd.user # 0 /\ lastCmd.tg \in signedOut
            => ~db[lastCmd.user].is_authenticated

\* ---- C32
\* the price the pass before resolved for the item of the latest step (-1
\* when that pass did not end well or resolved nothing for the item)
SeenBefore ==
    IF seen.state = "done" /\ lastStep.idx <= Len(seen.resolved[lastStep.user])
    THEN seen.resolved[lastStep.user][lastStep.idx]
    ELSE -1

\* C32: when an item with a threshold above zero resolves to the price that
\* the pass before resolved for it, the step adds no alert line.
C32_SamePriceAlertsOnce ==
    (/\ Ticked
     /\ ~lastStep.raised
     /\ SeenBefore = lastStep.value
     /\ StepThreshold > 0)
        => lastStep.batchAfter = lastStep.batchBefore

\* ---- C33
\* the step in which `await session.commit()` is called for the current user
CommitStep == apc = "commit" /\ apc' # "commit"

\* C33: in a pass the commit for a user comes when every item of that user's
\* list has been processed and, if the batch holds alerts, after the message
\* with that batch went to the user; the pass then goes on with the next user
\* or ends, so no commit lies between two items of one user and no user is
\* committed twice.
C33_CommitOncePerUserAfterSend ==
    [][CommitStep =>
        /\ ti = Len(sess[ui].tracked_tickers) + 1
        /\ Len(passLog.resolved[sess[ui].id]) = Len(sess[ui].tracked_tickers)
        /\ alerts # <<>> =>
                /\ outbox # <<>>
                /\ outbox[Len(outbox)] = [chat_id |-> sess[ui].telegram_id, lines |-> alerts]
        /\ \/ apc' = "idle"
           \/ apc' = "ticker" /\ ui' = ui + 1 /\ ti' = 1]_vars

\* a pass that ended well after a user with two items got a message
C33_Witness ==
    /\ passLog.state = "done"
    /\ \E u \in UserIds : Len(passLog.resolved[u]) >= 2 /\ MessagesTo(TelegramIdOf(u)) # {}

\* ---- C34
BinanceCalled == probe.op = "adapter" /\ probe.adapter = "binance"

\* C34: whenever get_binance_price got a client from create, the last call
\* it makes on the client is close_connection, whether the request gave a
\* price, gave nothing or raised.
C34_BinanceClientIsClosed ==
    BinanceCalled /\ probe.outcome.kind # "create_error"
        => /\ probe.steps[Len(probe.steps)] = "close_connection"
           /\ Cardinality({i \in 1..Len(probe.steps) : probe.steps[i] = "close_connection"}) = 1

\* a call in which the request raised and the client was closed
C34_Witness ==
    /\ BinanceCalled
    /\ probe.outcome.kind = "request_error"
    /\ probe.steps[Len(probe.steps)] = "close_connection"

\* ---- C35
\* the latest /track came from a Telegram id that sent /logout and has not
\* logged in (or registered, which logs in) since
IssuedAfterLogout == lastTrack.kind = "track" /\ lastTrack.tg \in signedOut

TrackChangedList == lastTrack.kind = "track" /\ lastTrack.after # lastTrack.before

\* C35 as stated: a /track changes a list only for a sender bound to an
\* authenticated user, and a /track sent after a logout and before the next
\* login changes nothing and is answered with the login prompt.
C35_TrackAfterLogoutPrompts ==
    /\ TrackChangedList => lastTrack.user # 0 /\ lastTrack.auth
    /\ IssuedAfterLogout => /\ lastTrack.after = lastTrack.before
                            /\ lastTrack.reply.kind = "login"

\* the arguments pass the checks that come before the user is looked up
ArgsAccepted ==
    /\ Len(lastTrack.args) >= 1
    /\ Len(lastTrack.args) > 1 => lastTrack.args[2].kind = "number"

\* C35, amended: a /track changes a list only for a sender bound to an
\* authenticated user; a /track sent after a logout and before the next
\* login changes nothing, and is answered with the login prompt when its
\* arguments are accepted, with the usage or the error text when not.
C35_TrackNeedsLogin ==
    /\ TrackChangedList => lastTrack.user # 0 /\ lastTrack.auth
    /\ IssuedAfterLogout =>
            /\ lastTrack.after = lastTrack.before
            /\ ArgsAccepted => lastTrack.reply.kind = "login"
            /\ ~ArgsAccepted => lastTrack.reply.kind \in {"usage", "error"}

\* a logged-out user, still bound to the Telegram id, sends /track SBER
C35_Witness ==
    /\ IssuedAfterLogout
    /\ lastTrack.user # 0
    /\ lastTrack.args = <<SBER>>
    /\ lastTrack.reply.kind = "login"

\* ---- C36
\* the entries of a list for a symbol
EntriesFor(list, sym) ==
    {list[i] : i \in {j \in 1..Len(list) : Has(list[j], "ticker") /\ list[j].ticker = sym}}

\* the entries of a list for every other symbol
EntriesBeside(list, sym) ==
    {list[i] : i \in {j \in 1..Len(list) : ~(Has(list[j], "ticker") /\ list[j].ticker = sym)}}

\* the pass commits the current user
PassCommits == apc = "commit" /\ apc' # "commit" /\ passLog'.failed # "commit"

\* a /track that was waiting for its price commits its list
TrackCommits ==
    /\ lastTrack.kind = "loading"
    /\ lastTrack'.kind = "track"
    /\ lastTrack'.reply.kind = "tracking"

\* the latest /track committed for user u while the pass was in flight
CommittedInFlight(u) ==
    /\ lastTrack.kind = "track"
    /\ lastTrack.reply.kind = "tracking"
    /\ lastTrack.user = u
    /\ Has(lastTrack, "during") /\ lastTrack.during[2] = "running"

TickedAtZero ==
    /\ Ticked
    /\ Has(lastStep.before, "last_price")
    /\ lastStep.before.last_price = 0

\* C37: in every pass, the first and each later one, a step for an item
\* whose stored last_price is 0 leaves the item as it was and adds no alert
\* line, whatever get_price gave; when get_price gave a price the step ends
\* in the error of the comparison; and the stored last_price is still 0.
C37_ZeroLastPriceIsStuck ==
    TickedAtZero =>
        /\ lastStep.after = lastStep.before
        /\ lastStep.batchAfter = lastStep.batchBefore
        /\ ~lastStep.raised => lastStep.how = "error"
        /\ db[lastStep.user].tracked_tickers[lastStep.idx].last_price = 0

\* in a pass that follows one that ended well, the item with last_price 0
\* resolves to 105
C37_Witness ==
    /\ TickedAtZero
    /\ seen.state = "done"
    /\ ~lastStep.raised
    /\ lastStep.value = 105

\* ---- C38
LoggedOut(u) == ~db[u].is_authenticated

\* C38: a pass selects exactly the users whose list is not empty and a
\* digest exactly those whose subscriptions are not empty, logged in or not;
\* a logged-out user whose ticker fired has got the alert message once the
\* pass is past that user's send, and a logged-out user for whom the digest
\* built lines and whose send returned has got the digest.
C38_LogoutKeepsAlertsAndDigests ==
    /\ passLog.state # "none" =>
            /\ \A u \in UserIds :
                    (\E i \in 1..Len(sess) : sess[i].id = u) = (db[u].tracked_tickers # <<>>)
            /\ \A i \in 1..Len(sess) :
                    (LoggedOut(sess[i].id) /\ SendDone(i)) =>
                        LET u == sess[i].id
                            expected == ExpectedLines(passLog.loaded[u], passLog.resolved[u], 1)
                            got == MessagesTo(sess[i].telegram_id)
                        IN  /\ (got # {}) = (expected # <<>>)
                            /\ \A k \in got : outbox[k].lines = expected
    /\ dlog.state # "none" =>
            /\ \A u \in UserIds :
                    (\E i \in 1..Len(dlog.selected) : dlog.selected[i] = u)
                        = (db[u].subscriptions # <<>>)
            /\ \A i \in 1..Len(dlog.users) :
                    LET e == dlog.users[i]
                    IN  (LoggedOut(e.id) /\ e.send = "ok") =>
                            /\ e.summary # <<>>
                            /\ \E k \in DigestsTo(db[e.id].telegram_id) :
                                    digests[k].lines = e.summary

\* a user who logged out got the alert for SBER
C38_Witness ==
    /\ passLog.state = "done"
    /\ \E i \in 1..Len(sess) :
            /\ LoggedOut(sess[i].id)
            /\ TelegramIdOf(sess[i].id) \in signedOut
            /\ \E k \in MessagesTo(sess[i].telegram_id) : Len(outbox[k].lines) = 1

\* ---- C39
\* a step of send_daily_summary
DigestStep == dlog' # dlog \/ dpc' # dpc \/ digests' # digests

\* C39: no step of send_daily_summary changes a user's subscriptions or
\* tracked list (or any other column), whatever the adapters and the send do.
C39_DigestIsReadOnly ==
    [][DigestStep =>
        /\ DOMAIN db' = DOMAIN db
        /\ \A u \in DOMAIN db :
                /\ db'[u].subscriptions = db[u].subscriptions
                /\ db'[u].tracked_tickers = db[u].tracked_tickers
                /\ db'[u] = db[u]]_vars

\* an invocation that ended well: an adapter raised for one user and a
\* digest was sent
C39_Witness ==
    /\ DigestEnded
    /\ dlog.state = "done"
    /\ digests # <<>>
    /\ \E i \in 1..Len(dlog.users) : dlog.users[i].crypto = "raised"

\* ---- C40
\* the ids in a sequence of loaded users are all different
DistinctUsers(objs) ==
    \A i, j \in 1..Len(objs) : objs[i].id = objs[j].id => i = j

\* no user is selected twice, no more items of a user are visited than the
\* user's list holds, and no more users get a digest iteration than were
\* selected, each one once
VisitedAtMostOnce ==
    /\ DistinctUsers(sess)
    /\ \A u \in UserIds : Len(passLog.resolved[u]) <= Len(passLog.loaded[u])
    /\ DistinctUsers(dsess)
    /\ Len(dlog.users) <= Len(dlog.selected)
    /\ \A i, j \in 1..Len(dlog.users) : dlog.users[i].id = dlog.users[j].id => i = j

\* C40: every invocation of check_price_alerts and of send_daily_summary
\* that has started ends, and in an invocation each selected user and each
\* item of a user is visited at most once.
C40_InvocationsTerminate ==
    /\ []VisitedAtMostOnce
    /\ (apc # "idle") ~> (apc = "idle")
    /\ (dpc # "idle") ~> (dpc = "idle")

\* a pass has ended after visiting both users and their three items
C40_Witness ==
    /\ PassEnded /\ passLog.state = "done"
    /\ Len(sess) = 2
    /\ \A i \in 1..Len(sess) : Visited(i)
    /\ Len(passLog.resolved[1]) = 2 /\ Len(passLog.resolved[2]) = 1

====
